---------------------------- MODULE Spec2Model ----------------------------
(***************************************************************************)
(* The realtime collaboration hub: CollabGroupCache and CollabGroup of     *)
(* libs/realtime/src/collaborate/group.rs.                                 *)
(*                                                                         *)
(* Every async operation of the cache is run by a task.  A task's step is  *)
(* the code between two await points; a step that takes a try-lock, works  *)
(* and drops the guard without awaiting is one step.  The registry lock    *)
(* and a group's subscribers lock are tokio RwLocks, taken with try_read / *)
(* try_write (fail at once when busy) or with write().await (wait).        *)
(***************************************************************************)
EXTENDS Integers, Sequences, FiniteSets, TLC

(***************************************************************************)
(* Bounds of the model.                                                    *)
(***************************************************************************)
MaxTasks == 2            \* concurrent callers of the cache
MaxCallObjects == 2      \* object ids the callers of Spec pass
MaxObjects == 6          \* object ids in all (the reaper's registry)
MaxUsers == 2            \* users a group's subscriber mapping is keyed by
MaxCallUsers == 1        \* users the calls of Spec are made for
MaxSubscriptions == 2    \* subscriptions created in one run
MaxUpdates == 2          \* updates applied in one run
MaxClockAdvances == 3    \* times the clock moves in one run
MaxCalls == 4            \* operations the callers start in one run
MaxMessages == 12        \* messages sent on the broadcast of SpecBroadcast
MaxAwareness == 1        \* awareness states among them

(***************************************************************************)
(* Program constants.                                                      *)
(***************************************************************************)
MaxInactivePerScan == 5  \* group.rs:50  `if inactive_group_ids.len() > 5`
BufferSize == 10         \* group.rs:162 `CollabBroadcast::new(.., 10)`

Tasks == 1..MaxTasks
CallObjects == 1..MaxCallObjects
Objects == 1..MaxObjects
Users == 1..MaxUsers
CallUsers == 1..MaxCallUsers
NoTask == 0
NoGroup == 0
NoSubscription == 0

CollabTypes ==
  <<"Document", "Database", "DatabaseRow", "WorkspaceDatabase", "Folder",
    "UserAwareness">>

\* The collab type a caller passes for an object: an object has one type.
CollabTypeOf(o) == CollabTypes[((o - 1) % Len(CollabTypes)) + 1]

VARIABLES
  debug_assertions,    \* cfg(debug_assertions): the build
  group_by_object_id,  \* the registry: object id -> group (NoGroup: absent)
  regLock,             \* the registry's RwLock: [writer, readers]
  groups,              \* every CollabGroup constructed so far, by group id
  subscriptions,       \* every Subscription created so far
  storage,             \* durable doc_state per object: a set of updates
  collab_cache,        \* the storage layer's weak map: object id -> group
  now,                 \* tokio's clock, in milliseconds
  clockAdvances,       \* times the clock has moved
  updates,             \* updates applied so far (the next update's id - 1)
  calls,               \* operations started so far
  tasks,               \* each task's operation, position and locals
  mw,                  \* the HTTP request inside the access middleware
  policy               \* the memberships, the casbin model and the adapter

vars ==
  <<debug_assertions, group_by_object_id, regLock, groups, subscriptions,
    storage, collab_cache, now, clockAdvances, updates, calls, tasks, mw,
    policy>>

\* The variables of the realtime hub and of the policy store, which the HTTP
\* middleware leaves alone.
hubVars ==
  <<debug_assertions, group_by_object_id, regLock, groups, subscriptions,
    storage, collab_cache, now, clockAdvances, updates, calls, tasks, policy>>

\* The variables the policy adapter leaves alone.
nonPolicyVars ==
  <<debug_assertions, group_by_object_id, regLock, groups, subscriptions,
    storage, collab_cache, now, clockAdvances, updates, calls, tasks, mw>>

\* Mutant: the release build's arms for Database and Folder swapped.
timeout_secs_swapped(debug, collab_type) ==
  IF debug THEN 2 * 60
  ELSE CASE collab_type = "Document" -> 10 * 60
         [] collab_type \in {"Database", "DatabaseRow"} -> 2 * 60 * 60
         [] OTHER -> 60 * 60

(***************************************************************************)
(* CollabGroup::timeout_secs, group.rs:297-309.                            *)
(***************************************************************************)
timeout_secs(debug, collab_type) ==
  IF debug THEN 2 * 60
  ELSE CASE collab_type = "Document" -> 10 * 60
         [] collab_type \in {"Database", "DatabaseRow"} -> 60 * 60
         [] OTHER -> 2 * 60 * 60

\* Duration::as_secs: whole seconds, the fraction dropped.
as_secs(ms) == ms \div 1000

\* Instant::elapsed of an instant `at`.
elapsed(at) == now - at

\* Mutant: the rule of is_inactive's doc comment, under which a group with
\* a subscriber is active.
is_inactive_without_subscribers(g) ==
  /\ \A u \in Users : groups[g].subscribers[u] = 0
  /\ (now - groups[g].modified_at) \div 1000
       > timeout_secs(debug_assertions, groups[g].collab_type)

(***************************************************************************)
(* CollabGroup::is_inactive, group.rs:273-276.                             *)
(***************************************************************************)
is_inactive(g) ==
  as_secs(elapsed(groups[g].modified_at))
    > timeout_secs(debug_assertions, groups[g].collab_type)

(***************************************************************************)
(* CollabGroup::new, group.rs:218-231, and the collab, broadcast and       *)
(* plugin init_group builds around it, group.rs:161-179.  removed and      *)
(* flushed record what later happened to the group.                        *)
(***************************************************************************)
\* A message on a group's broadcast channel: an applied update or an
\* awareness state, tagged with the subscription it came in by.
Message(kind, id, origin) == [kind |-> kind, id |-> id, origin |-> origin]

\* Mutant: the new group's modified_at is the clock's origin, not now.
NewGroupAtEpoch(o, collab_type) ==
  [ object_id |-> o,
    collab_type |-> collab_type,
    modified_at |-> 0,
    subscribers |-> [u \in Users |-> NoSubscription],
    subsLock |-> NoTask,
    replica |-> {},
    collab_lock |-> NoTask,
    channel |-> <<>>,
    initialized |-> FALSE,
    observing |-> FALSE,
    removed |-> FALSE,
    flushed |-> FALSE ]

NewGroup(o, collab_type) ==
  [ object_id |-> o,
    collab_type |-> collab_type,
    modified_at |-> now,
    subscribers |-> [u \in Users |-> NoSubscription],
    subsLock |-> NoTask,
    replica |-> {},
    collab_lock |-> NoTask,
    channel |-> <<>>,
    initialized |-> FALSE,
    observing |-> FALSE,
    removed |-> FALSE,
    flushed |-> FALSE ]

IdleTask ==
  [ op |-> "none", pc |-> "idle", object_id |-> 0, user |-> 0,
    gid |-> NoGroup, inactive_group_ids |-> <<>>, scanned |-> {},
    ret |-> "none", log |-> "none", removed |-> 0, events |-> <<>>,
    snapshot |-> {}, members |-> {} ]

Idle(t) == tasks[t].pc = "idle"

\* An idle task starts an operation.
Begin(t) == Idle(t) /\ calls < MaxCalls /\ calls' = calls + 1

\* A call begins: the locals of the task's last call are dropped.
Call(op, o, u) == [IdleTask EXCEPT !.op = op, !.object_id = o, !.user = u]

\* A call returns: ret is what the caller gets, log what was logged.
Return(tk, ret, log) ==
  [tk EXCEPT !.pc = "idle", !.ret = ret, !.log = log]

\* Mutant: try_write succeeds while another writer holds the lock.
TryWriteIgnoresWriter == regLock.readers = {}

(***************************************************************************)
(* tokio::sync::RwLock::try_write / try_read on the registry.              *)
(***************************************************************************)
TryWriteOk == regLock.writer = NoTask /\ regLock.readers = {}
TryReadOk == regLock.writer = NoTask

\* Mutant: the presence check is lost.
contains_key_never(o) == FALSE

\* HashMap::contains_key, group.rs:137.
contains_key(o) == group_by_object_id[o] # NoGroup

Registered == {o \in Objects : group_by_object_id[o] # NoGroup}

HoldsRegistry(t) == regLock.writer = t \/ t \in regLock.readers

(***************************************************************************)
(* create_group_if_need, group.rs:128-150, with init_group,                *)
(* group.rs:152-189, inlined: the write guard lives until the match arm    *)
(* ends, so it is held across every await of init_group.                   *)
(***************************************************************************)
\* Mutant: the busy lock is reported to the caller as an error.
CreateLockBusyReported(t, o) ==
  /\ tasks' = [tasks EXCEPT
       ![t] = Return(Call("create_group_if_need", o, 0), "Err",
                     "create_lock_error")]
  /\ UNCHANGED <<group_by_object_id, regLock, groups>>

\* group.rs:148: the lock is busy; the error is logged, () is returned.
CreateLockBusy(t, o) ==
  /\ tasks' = [tasks EXCEPT
       ![t] = Return(Call("create_group_if_need", o, 0), "Unit",
                     "create_lock_error")]
  /\ UNCHANGED <<group_by_object_id, regLock, groups>>

\* group.rs:137-140: the group exists; the guard is dropped by the return.
CreateExists(t, o) ==
  /\ tasks' = [tasks EXCEPT
       ![t] = Return(Call("create_group_if_need", o, 0), "Unit",
                     "already_exists")]
  /\ UNCHANGED <<group_by_object_id, regLock, groups>>

\* group.rs:142-144 and 160-181: the group is built, the plugin added, and
\* the task awaits initialize() with the write guard held.
\* Mutant: the group is inserted into the registry as soon as it is built.
CreateBeginInsertsFirst(t, o) ==
  /\ groups' = Append(groups, NewGroup(o, CollabTypeOf(o)))
  /\ regLock' = [regLock EXCEPT !.writer = t]
  /\ tasks' = [tasks EXCEPT
       ![t] = [Call("create_group_if_need", o, 0) EXCEPT
                 !.pc = "init_initialize", !.gid = Len(groups) + 1]]
  /\ group_by_object_id' =
       [group_by_object_id EXCEPT ![o] = Len(groups) + 1]

CreateBegin(t, o) ==
  /\ groups' = Append(groups, NewGroup(o, CollabTypeOf(o)))
  /\ regLock' = [regLock EXCEPT !.writer = t]
  /\ tasks' = [tasks EXCEPT
       ![t] = [Call("create_group_if_need", o, 0) EXCEPT
                 !.pc = "init_initialize", !.gid = Len(groups) + 1]]
  /\ UNCHANGED group_by_object_id

create_group_if_need(t, o) ==
  /\ Begin(t)
  /\ IF TryWriteOk
     THEN IF contains_key(o) THEN CreateExists(t, o) ELSE CreateBegin(t, o)
     ELSE CreateLockBusy(t, o)
  /\ UNCHANGED <<policy, mw, debug_assertions, subscriptions, storage, collab_cache, now,
                 clockAdvances, updates>>

\* The plugin's initial load: the durable doc_state is merged into the new,
\* empty replica.
PluginInit(g) ==
  [groups EXCEPT ![g].replica = groups[g].replica \cup storage[groups[g].object_id],
                 ![g].initialized = TRUE]

\* group.rs:181: initialize() completes; cache_collab is awaited next.
init_group_initialize(t) ==
  /\ tasks[t].pc = "init_initialize"
  /\ groups' = PluginInit(tasks[t].gid)
  /\ tasks' = [tasks EXCEPT ![t].pc = "init_cache_collab"]
  /\ UNCHANGED <<policy, mw, debug_assertions, group_by_object_id, regLock, subscriptions,
                 storage, collab_cache, now, clockAdvances, updates,
                 calls>>

\* group.rs:183-186: cache_collab completes; observe_collab is awaited next.
init_group_cache_collab(t) ==
  /\ tasks[t].pc = "init_cache_collab"
  /\ collab_cache' = [collab_cache EXCEPT ![tasks[t].object_id] = tasks[t].gid]
  /\ tasks' = [tasks EXCEPT ![t].pc = "init_observe"]
  /\ UNCHANGED <<policy, mw, debug_assertions, group_by_object_id, regLock, groups,
                 subscriptions, storage, now, clockAdvances, updates,
                 calls>>

\* group.rs:187-188 and 145-147: observe_collab completes, the group is
\* inserted, the write guard is dropped.
create_group_insert(t) ==
  /\ tasks[t].pc = "init_observe"
  /\ groups' = [groups EXCEPT ![tasks[t].gid].observing = TRUE]
  /\ group_by_object_id' =
       [group_by_object_id EXCEPT ![tasks[t].object_id] = tasks[t].gid]
  /\ regLock' = [regLock EXCEPT !.writer = NoTask]
  /\ tasks' = [tasks EXCEPT ![t] = Return(tasks[t], "Unit", "created")]
  /\ UNCHANGED <<policy, mw, debug_assertions, subscriptions, storage, collab_cache, now,
                 clockAdvances, updates,
                 calls>>

\* Mutant: the replica's mutex is never seen held.
CollabLockNeverHeld(g) == TRUE

\* self.collab.lock(), group.rs:259, 264, 283: the mutex of the replica can
\* be taken.
CollabLockFree(g) == groups[g].collab_lock = NoTask

(***************************************************************************)
(* The storage plugin's flush: the replica's whole encoded state is        *)
(* written as the object's durable doc_state.                              *)
(***************************************************************************)
PluginFlush(g) ==
  [storage EXCEPT ![groups[g].object_id] = groups[g].replica]

\* The subscriptions in a group's subscriber mapping.
SubscribersOf(g) ==
  {groups[g].subscribers[u] : u \in Users} \ {NoSubscription}

\* Subscription::stop on each of `subs`, called by `by`.
StopAll(subs, by) ==
  [s \in DOMAIN subscriptions |->
     IF s \in subs
     THEN [subscriptions[s] EXCEPT !.state = "stopped", !.stopped_by = by]
     ELSE subscriptions[s]]

(***************************************************************************)
(* remove_group, group.rs:100-126.  tick calls it for each id it           *)
(* collected, so where it returns to depends on the task's operation.      *)
(***************************************************************************)
\* Mutant: tick gives up its remaining candidates when one remove_group
\* could not take the lock.
AfterRemoveGroupAbortsOnError(tk, log) ==
  IF tk.op = "tick" /\ Len(tk.inactive_group_ids) > 1
       /\ log # "remove_lock_error"
  THEN [tk EXCEPT !.pc = "reap", !.log = log,
                  !.inactive_group_ids = Tail(tk.inactive_group_ids)]
  ELSE Return([tk EXCEPT !.inactive_group_ids = <<>>], "Unit", log)

\* remove_group returns: to the caller, or to tick's loop, group.rs:58-60.
AfterRemoveGroup(tk, log) ==
  IF tk.op = "tick" /\ Len(tk.inactive_group_ids) > 1
  THEN [tk EXCEPT !.pc = "reap", !.log = log,
                  !.inactive_group_ids = Tail(tk.inactive_group_ids)]
  ELSE Return([tk EXCEPT !.inactive_group_ids = <<>>], "Unit", log)

\* group.rs:104-107: the lock is busy; the error is logged, nothing is done.
RemoveLockBusy(t, tk) ==
  /\ tasks' = [tasks EXCEPT ![t] = AfterRemoveGroup(tk, "remove_lock_error")]
  /\ UNCHANGED <<group_by_object_id, groups>>

\* Mutant: with no group to remove, remove_group returns without a call of
\* the storage layer.
RemoveEntryReturnsWhenAbsent(t, o, tk) ==
  LET g == group_by_object_id[o] IN
  /\ group_by_object_id' = [group_by_object_id EXCEPT ![o] = NoGroup]
  /\ IF g # NoGroup
     THEN /\ groups' = [groups EXCEPT ![g].removed = TRUE]
          /\ tasks' = [tasks EXCEPT
               ![t] = [tk EXCEPT !.pc = "rg_flush", !.gid = g,
                                 !.removed = @ + 1,
                                 !.events = <<"remove", "unlock">>]]
     ELSE /\ groups' = groups
          /\ tasks' = [tasks EXCEPT
               ![t] = AfterRemoveGroup(
                        [tk EXCEPT !.events = <<"remove", "unlock">>],
                        "group_not_found")]

\* group.rs:109-113 and 120-125: the entry is removed and the guard dropped;
\* then flush_collab is awaited, or, with no group, remove_collab_cache.
RemoveEntry(t, o, tk) ==
  LET g == group_by_object_id[o] IN
  /\ group_by_object_id' = [group_by_object_id EXCEPT ![o] = NoGroup]
  /\ IF g # NoGroup
     THEN /\ groups' = [groups EXCEPT ![g].removed = TRUE]
          /\ tasks' = [tasks EXCEPT
               ![t] = [tk EXCEPT !.pc = "rg_flush", !.gid = g,
                                 !.removed = @ + 1,
                                 !.events = <<"remove", "unlock">>]]
     ELSE /\ groups' = groups
          /\ tasks' = [tasks EXCEPT
               ![t] = [tk EXCEPT !.pc = "rg_evict", !.gid = NoGroup,
                                 !.log = "group_not_found",
                                 !.events = <<"remove", "unlock">>]]

remove_group_try(t, o, tk) ==
  /\ IF TryWriteOk THEN RemoveEntry(t, o, tk) ELSE RemoveLockBusy(t, tk)
  /\ UNCHANGED <<policy, mw, debug_assertions, regLock, subscriptions, storage,
                 collab_cache, now, clockAdvances, updates>>

\* A caller's remove_group(object_id).
remove_group(t, o) ==
  /\ Begin(t)
  /\ remove_group_try(t, o, Call("remove_group", o, 0))

\* Mutant: the subscribers are stopped without the flush having run.
remove_group_flush_skipped(t) ==
  LET g == tasks[t].gid IN
  /\ tasks[t].pc = "rg_flush"
  /\ SubscribersOf(g) # {}
  /\ groups[g].subsLock = NoTask
  /\ groups' = [groups EXCEPT ![g].subsLock = t]
  /\ tasks' = [tasks EXCEPT ![t].pc = "rg_stop"]
  /\ UNCHANGED <<policy, mw, debug_assertions, group_by_object_id, regLock, subscriptions,
                 storage, collab_cache, now, clockAdvances, updates, calls>>

\* group.rs:113-119: flush_collab completes (the replica is written under
\* its mutex); then subscribers.try_write(): with the guard, each
\* subscriber's stop() is awaited; without it the loop is skipped.
remove_group_flush(t) ==
  LET g == tasks[t].gid IN
  /\ tasks[t].pc = "rg_flush"
  /\ CollabLockFree(g)
  /\ storage' = PluginFlush(g)
  /\ IF groups[g].subsLock = NoTask /\ SubscribersOf(g) # {}
     THEN /\ groups' = [groups EXCEPT ![g].flushed = TRUE, ![g].subsLock = t]
          /\ tasks' = [tasks EXCEPT ![t].pc = "rg_stop",
                                    ![t].events = Append(@, "flush"),
                                    ![t].members = SubscribersOf(g)]
     ELSE /\ groups' = [groups EXCEPT ![g].flushed = TRUE]
          /\ tasks' = [tasks EXCEPT
               ![t].pc = "rg_evict",
               ![t].events = Append(@, "flush"),
               ![t].members = SubscribersOf(g),
               ![t].log = IF groups[g].subsLock = NoTask THEN @
                          ELSE "subscribers_lock_busy"]
  /\ UNCHANGED <<policy, mw, debug_assertions, group_by_object_id, regLock, subscriptions,
                 collab_cache, now, clockAdvances, updates,
                 calls>>

\* group.rs:116-119: every subscriber of the removed group has stopped; the
\* subscribers guard is dropped.
remove_group_stop(t) ==
  LET g == tasks[t].gid IN
  /\ tasks[t].pc = "rg_stop"
  /\ subscriptions' = StopAll(SubscribersOf(g), "remove_group")
  /\ groups' = [groups EXCEPT ![g].subsLock = NoTask]
  /\ tasks' = [tasks EXCEPT ![t].pc = "rg_evict",
                            ![t].events = Append(@, "stop")]
  /\ UNCHANGED <<policy, mw, debug_assertions, group_by_object_id, regLock, storage,
                 collab_cache, now, clockAdvances, updates,
                 calls>>

\* group.rs:125: remove_collab_cache completes; remove_group returns.
remove_group_evict(t) ==
  /\ tasks[t].pc = "rg_evict"
  /\ collab_cache' = [collab_cache EXCEPT ![tasks[t].object_id] = NoGroup]
  /\ tasks' = [tasks EXCEPT
       ![t] = AfterRemoveGroup([tasks[t] EXCEPT !.events = Append(@, "evict")],
                               tasks[t].log)]
  /\ UNCHANGED <<policy, mw, debug_assertions, group_by_object_id, regLock, groups,
                 subscriptions, storage, now, clockAdvances, updates,
                 calls>>

(***************************************************************************)
(* tick, group.rs:44-62.                                                   *)
(***************************************************************************)
\* group.rs:45-46: try_read.  Without the guard, or with an empty map, the
\* list stays empty and tick returns.
tick_call(t) ==
  /\ IF TryReadOk /\ Registered # {}
     THEN /\ regLock' = [regLock EXCEPT !.readers = @ \cup {t}]
          /\ tasks' = [tasks EXCEPT ![t] = [Call("tick", 0, 0) EXCEPT
                                              !.pc = "scan"]]
     ELSE /\ regLock' = regLock
          /\ tasks' = [tasks EXCEPT
               ![t] = Return(Call("tick", 0, 0), "Unit",
                             IF TryReadOk THEN "none" ELSE "tick_lock_error")]
  /\ UNCHANGED <<policy, mw, debug_assertions, group_by_object_id, groups, subscriptions,
                 storage, collab_cache, now, clockAdvances, updates>>

\* One call of tick, out of the bounded number of calls of a run.
tick(t) == Begin(t) /\ tick_call(t)

\* The fixed-interval driver: tick is called again whenever the previous
\* call has returned, without end.
interval_tick(t) == Idle(t) /\ tick_call(t) /\ UNCHANGED calls

\* group.rs:50: the scan stops once the list is longer than the bound.
ScanBreaks(ids) == Len(ids) > MaxInactivePerScan

\* group.rs:47-55: the map's next entry, in the iterator's (arbitrary)
\* order: is_inactive is awaited, an inactive id is pushed.  When the loop
\* ends the read guard is dropped, and tick goes on to line 57.
tick_scan(t, o) ==
  LET ids == IF is_inactive(group_by_object_id[o])
             THEN Append(tasks[t].inactive_group_ids, o)
             ELSE tasks[t].inactive_group_ids
      seen == tasks[t].scanned \cup {o}
      over == (is_inactive(group_by_object_id[o]) /\ ScanBreaks(ids))
                \/ seen = Registered
  IN
  /\ tasks[t].pc = "scan"
  /\ o \in Registered \ tasks[t].scanned
  /\ regLock' = IF over THEN [regLock EXCEPT !.readers = @ \ {t}] ELSE regLock
  /\ tasks' = [tasks EXCEPT
       ![t] = IF ~over
              THEN [@ EXCEPT !.inactive_group_ids = ids, !.scanned = seen]
              ELSE IF ids = <<>>
              THEN Return([@ EXCEPT !.scanned = {}], "Unit", "none")
              ELSE [@ EXCEPT !.pc = "reap", !.inactive_group_ids = ids,
                             !.scanned = {}]]
  /\ UNCHANGED <<policy, mw, debug_assertions, group_by_object_id, groups, subscriptions,
                 storage, collab_cache, now, clockAdvances, updates,
                 calls>>

\* Mutant: the collected ids are dropped without a call of remove_group.
tick_reap_forgets(t) ==
  /\ tasks[t].pc = "reap"
  /\ tasks' = [tasks EXCEPT ![t] = Return(tasks[t], "Unit", "none")]
  /\ UNCHANGED <<policy, mw, debug_assertions, group_by_object_id, regLock, groups,
                 subscriptions, storage, collab_cache, now, clockAdvances,
                 updates, calls>>

\* group.rs:58-60: remove_group(&object_id) for the next collected id.
tick_reap(t) ==
  /\ tasks[t].pc = "reap"
  /\ UNCHANGED calls
  /\ remove_group_try(t, Head(tasks[t].inactive_group_ids),
       [tasks[t] EXCEPT !.object_id = Head(tasks[t].inactive_group_ids),
                        !.gid = NoGroup, !.events = <<>>])

\* Mutant: every subscription of the group is detached and stopped.
remove_user_clears_group(t, o, u) ==
  LET g == group_by_object_id[o]
      call == Call("remove_user", o, u)
  IN
  /\ Begin(t)
  /\ IF ~TryReadOk \/ g = NoGroup
     THEN /\ tasks' = [tasks EXCEPT
               ![t] = Return(call, IF TryReadOk THEN "Ok" ELSE "Err", "none")]
          /\ UNCHANGED <<groups, subscriptions>>
     ELSE IF groups[g].subsLock # NoTask
     THEN /\ tasks' = [tasks EXCEPT ![t] = Return(call, "Err", "none")]
          /\ UNCHANGED <<groups, subscriptions>>
     ELSE /\ groups' = [groups EXCEPT
               ![g].subscribers = [v \in Users |-> NoSubscription]]
          /\ subscriptions' =
               [s \in DOMAIN subscriptions |->
                  IF s \in SubscribersOf(g)
                  THEN [subscriptions[s] EXCEPT !.state = "stopping"]
                  ELSE subscriptions[s]]
          /\ tasks' = [tasks EXCEPT
               ![t] = Return(call, "Ok", "remove_subscriber")]
  /\ UNCHANGED <<policy, mw, debug_assertions, group_by_object_id, regLock, storage,
                 collab_cache, now, clockAdvances, updates>>

(***************************************************************************)
(* remove_user, group.rs:73-84: one step, no await while a guard is held.  *)
(* The removed subscription is stopped by a spawned task.                  *)
(***************************************************************************)
remove_user(t, o, u) ==
  LET g == group_by_object_id[o]
      s == groups[g].subscribers[u]
      call == Call("remove_user", o, u)
  IN
  /\ Begin(t)
  /\ IF ~TryReadOk
     THEN /\ tasks' = [tasks EXCEPT ![t] = Return(call, "Err", "none")]
          /\ UNCHANGED <<groups, subscriptions>>
     ELSE IF g = NoGroup
     THEN /\ tasks' = [tasks EXCEPT ![t] = Return(call, "Ok", "none")]
          /\ UNCHANGED <<groups, subscriptions>>
     ELSE IF groups[g].subsLock # NoTask
     THEN /\ tasks' = [tasks EXCEPT ![t] = Return(call, "Err", "none")]
          /\ UNCHANGED <<groups, subscriptions>>
     ELSE IF s = NoSubscription
     THEN /\ tasks' = [tasks EXCEPT ![t] = Return(call, "Ok", "none")]
          /\ UNCHANGED <<groups, subscriptions>>
     ELSE /\ groups' = [groups EXCEPT ![g].subscribers[u] = NoSubscription]
          /\ subscriptions' = [subscriptions EXCEPT ![s].state = "stopping"]
          /\ tasks' = [tasks EXCEPT
               ![t] = Return(call, "Ok", "remove_subscriber")]
  /\ UNCHANGED <<policy, mw, debug_assertions, group_by_object_id, regLock, storage,
                 collab_cache, now, clockAdvances, updates>>

\* group.rs:78-80: the spawned task runs subscriber.stop().
spawned_stop(s) ==
  /\ subscriptions[s].state = "stopping"
  /\ subscriptions' = [subscriptions EXCEPT ![s].state = "stopped",
                                            ![s].stopped_by = "remove_user"]
  /\ UNCHANGED <<policy, mw, debug_assertions, group_by_object_id, regLock, groups,
                 storage, collab_cache, now, clockAdvances, updates, tasks,
                 calls>>

\* Mutant: the lookup answers from the map while a writer holds the lock.
get_group_ignoring_lock(o) == group_by_object_id[o]

(***************************************************************************)
(* get_group, group.rs:91-98: None when the lock is busy.                  *)
(***************************************************************************)
get_group(o) == IF TryReadOk THEN group_by_object_id[o] ELSE NoGroup

\* What a lookup hands back: Ok(bool), Some(n), None or Err.
OkBool(b) == IF b THEN "Ok(true)" ELSE "Ok(false)"
SomeOf(n) == "Some(" \o ToString(n) \o ")"

\* The frame of a lookup: the task's record is all that changes.
LookupReturns(t, call, ret) ==
  /\ Begin(t)
  /\ tasks' = [tasks EXCEPT ![t] = Return(call, ret, "none")]
  /\ UNCHANGED <<policy, mw, debug_assertions, group_by_object_id, regLock,
                 groups, subscriptions, storage, collab_cache, now,
                 clockAdvances, updates>>

\* group.rs:64-71: contains_user; `?` on the registry's try_read and on the
\* group's subscribers.try_read.
contains_user(t, o, u) ==
  LET g == group_by_object_id[o] IN
  LookupReturns(t, Call("contains_user", o, u),
    IF ~TryReadOk THEN "Err"
    ELSE IF g = NoGroup THEN "Ok(false)"
    ELSE IF groups[g].subsLock # NoTask THEN "Err"
    ELSE OkBool(groups[g].subscribers[u] # NoSubscription))

\* group.rs:86-89: contains_group; `?` on try_read.
contains_group(t, o) ==
  LookupReturns(t, Call("contains_group", o, 0),
    IF ~TryReadOk THEN "Err" ELSE OkBool(group_by_object_id[o] # NoGroup))

\* group.rs:91-98: a caller's get_group(object_id).
get_group_call(t, o) ==
  LookupReturns(t, [Call("get_group", o, 0) EXCEPT !.gid = get_group(o)],
    IF get_group(o) = NoGroup THEN "None" ELSE SomeOf(get_group(o)))

\* group.rs:191-194: number_of_groups; None when try_read fails.
number_of_groups(t) ==
  LookupReturns(t, Call("number_of_groups", 0, 0),
    IF ~TryReadOk THEN "None" ELSE SomeOf(Cardinality(Registered)))

\* CollabGroup::subscribe, group.rs:237-252: the new Subscription shares the
\* group's modified_at.
NewSubscription(g, u) ==
  [group |-> g, user |-> u, state |-> "running", stopped_by |-> "none",
   cursor |-> Len(groups[g].channel) + 1, received |-> <<>>]

(***************************************************************************)
(* A client subscribes: the hub looks the group up, takes the group's      *)
(* subscribers lock (write().await), replaces the user's prior             *)
(* subscription by the one group.subscribe returns, and drops the lock.    *)
(***************************************************************************)
Subscribing == {t \in Tasks : tasks[t].pc \in {"sub_lock", "sub_insert"}}

subscribe_get_group(t, o, u) ==
  /\ Begin(t)
  /\ Len(subscriptions) + Cardinality(Subscribing) < MaxSubscriptions
  /\ tasks' = [tasks EXCEPT
       ![t] = IF get_group(o) = NoGroup
              THEN Return(Call("subscribe", o, u), "None", "none")
              ELSE [Call("subscribe", o, u) EXCEPT
                      !.pc = "sub_lock", !.gid = get_group(o)]]
  /\ UNCHANGED <<policy, mw, debug_assertions, group_by_object_id, regLock, groups,
                 subscriptions, storage, collab_cache, now, clockAdvances,
                 updates>>

subscribe_lock(t) ==
  /\ tasks[t].pc = "sub_lock"
  /\ groups[tasks[t].gid].subsLock = NoTask
  /\ groups' = [groups EXCEPT ![tasks[t].gid].subsLock = t]
  /\ tasks' = [tasks EXCEPT ![t].pc = "sub_insert"]
  /\ UNCHANGED <<policy, mw, debug_assertions, group_by_object_id, regLock, subscriptions,
                 storage, collab_cache, now, clockAdvances, updates,
                 calls>>

subscribe_insert(t) ==
  LET g == tasks[t].gid
      u == tasks[t].user
      old == groups[g].subscribers[u]
      new == Len(subscriptions) + 1
  IN
  /\ tasks[t].pc = "sub_insert"
  /\ subscriptions' =
       Append(StopAll({old} \ {NoSubscription}, "rebind"),
              NewSubscription(g, u))
  /\ groups' = [groups EXCEPT ![g].subscribers[u] = new,
                              ![g].subsLock = NoTask]
  /\ tasks' = [tasks EXCEPT ![t] = Return(tasks[t], "Subscribed", "none")]
  /\ UNCHANGED <<policy, mw, debug_assertions, group_by_object_id, regLock, storage,
                 collab_cache, now, clockAdvances, updates,
                 calls>>

(***************************************************************************)
(* A subscription's inbound task applies a client's update to the replica  *)
(* under the replica's mutex and sets the group's modified_at.  It runs    *)
(* until the subscription is stopped.                                      *)
(***************************************************************************)
inbound_update(s) ==
  LET g == subscriptions[s].group IN
  /\ subscriptions[s].state # "stopped"
  /\ CollabLockFree(g)
  /\ updates' = updates + 1
  /\ groups' = [groups EXCEPT
       ![g].replica = @ \cup {updates + 1},
       ![g].modified_at = now,
       ![g].channel = Append(@, Message("update", updates + 1, s))]
  /\ UNCHANGED <<policy, mw, debug_assertions, group_by_object_id, regLock, subscriptions,
                 storage, collab_cache, now, clockAdvances, tasks,
                 calls>>

apply_update(s) == updates < MaxUpdates /\ inbound_update(s)

\* The inbound task gets an update that does not apply: it is logged and
\* nack-ed, the replica and modified_at are left alone.
reject_update(s) ==
  /\ subscriptions[s].state # "stopped"
  /\ updates < MaxUpdates
  /\ updates' = updates + 1
  /\ UNCHANGED <<policy, mw, debug_assertions, group_by_object_id, regLock, groups,
                 subscriptions, storage, collab_cache, now, clockAdvances,
                 tasks, calls>>

\* The inbound task gets an awareness update: it is broadcast, nothing is
\* applied to the replica.
inbound_awareness(s) ==
  LET g == subscriptions[s].group IN
  /\ subscriptions[s].state # "stopped"
  /\ updates' = updates + 1
  /\ groups' = [groups EXCEPT
       ![g].channel = Append(@, Message("awareness", updates + 1, s))]
  /\ UNCHANGED <<policy, mw, debug_assertions, group_by_object_id, regLock, subscriptions,
                 storage, collab_cache, now, clockAdvances, tasks,
                 calls>>

awareness_update(s) == updates < MaxUpdates /\ inbound_awareness(s)

(***************************************************************************)
(* The broadcast's bounded channel keeps the last BufferSize messages.  A  *)
(* subscription's outbound task takes the next message after its cursor;   *)
(* when that message has been dropped it gets the lag marker and goes on   *)
(* from the oldest message kept.  Messages of its own origin are not       *)
(* forwarded to its sink.                                                  *)
(***************************************************************************)
OldestKept(g) ==
  IF Len(groups[g].channel) > BufferSize
  THEN Len(groups[g].channel) - BufferSize + 1
  ELSE 1

\* Mutant: a lagging subscriber is moved on without a marker.
LagMarkerOmitted == <<>>

LagMarker == << Message("resync", 0, NoSubscription) >>

deliver(s) ==
  LET g == subscriptions[s].group
      c == subscriptions[s].cursor
      m == groups[g].channel[c]
  IN
  /\ subscriptions[s].state = "running"
  /\ c <= Len(groups[g].channel)
  /\ subscriptions' = [subscriptions EXCEPT
       ![s].cursor = IF c < OldestKept(g) THEN OldestKept(g) ELSE c + 1,
       ![s].received = IF c < OldestKept(g) THEN @ \o LagMarker
                       ELSE IF m.origin = s THEN @
                       ELSE Append(@, m)]
  /\ UNCHANGED <<policy, mw, debug_assertions, group_by_object_id, regLock, groups,
                 storage, collab_cache, now, clockAdvances, updates, tasks,
                 calls>>

(***************************************************************************)
(* Time passes: half a second, or the group timeout of the build.          *)
(***************************************************************************)
ClockSteps ==
  {500} \cup {1000 * timeout_secs(debug_assertions, CollabTypeOf(o)) :
                o \in Objects}

advance_clock(d) ==
  /\ clockAdvances < MaxClockAdvances
  /\ now' = now + d
  /\ clockAdvances' = clockAdvances + 1
  /\ UNCHANGED <<policy, mw, debug_assertions, group_by_object_id, regLock, groups,
                 subscriptions, storage, collab_cache, updates, tasks,
                 calls>>

(***************************************************************************)
(* WorkspaceAccessControlMiddleware::call,                                 *)
(* src/middleware/access_control_mw.rs:177-265.  A request is the matched  *)
(* route's path parameters (as the raw strings of the URL), its method and *)
(* the access-control services the middleware was built with.  The         *)
(* answers of the user cache and of the services are the environment's.    *)
(***************************************************************************)
AccessResources == {"Workspace", "Collab"}
Methods == {"GET", "POST", "DELETE"}
Absent == "absent"
WorkspaceIdParams ==
  {Absent, "9a3e52d6-3c1f-4b54-8e1f-6d2f8c0b7a11", "my-workspace"}
ObjectIdParams == {Absent, "object-1"}

\* Uuid::parse_str(id).ok(): Some for a well-formed UUID, None otherwise.
UuidParses(id) == id = "9a3e52d6-3c1f-4b54-8e1f-6d2f8c0b7a11"

\* No request is in the middleware.
NoRequest ==
  [ pc |-> "none", matched |-> FALSE, workspace_param |-> Absent,
    object_param |-> Absent, method |-> "GET", services |-> {},
    workspace_id |-> "None", collab_object_id |-> "None",
    uid |-> "unresolved", checks |-> <<>>, inner |-> "not_called",
    response |-> "none" ]

\* The requests that can arrive: one that matched no route pattern has no
\* path parameters.
Requests ==
  { r \in { [NoRequest EXCEPT !.pc = "call", !.matched = m,
                              !.workspace_param = w, !.object_param = o,
                              !.method = h, !.services = acs] :
              m \in BOOLEAN, w \in WorkspaceIdParams, o \in ObjectIdParams,
              h \in Methods, acs \in SUBSET AccessResources } :
      r.matched \/ (r.workspace_param = Absent /\ r.object_param = Absent) }

\* Mutant: the uid is resolved and the checks are entered for every route.
NeedsAccessControlAlways(workspace_id, collab_object_id) == TRUE

\* access_control_mw.rs:222
NeedsAccessControl(workspace_id, collab_object_id) ==
  workspace_id # "None" \/ collab_object_id # "None"

\* access_control_mw.rs:178-219: the synchronous part of call.  Without a
\* matched pattern the inner service's future is returned as it is;
\* otherwise the path parameters are read, the inner service is called
\* (line 217) and the checks are boxed in front of its future.
mw_call ==
  /\ mw.pc = "call"
  /\ mw' = IF ~mw.matched
           THEN [mw EXCEPT !.pc = "forward", !.inner = "called"]
           ELSE [mw EXCEPT
                   !.pc = "enter",
                   !.inner = "called",
                   !.workspace_id =
                      IF mw.workspace_param # Absent
                         /\ UuidParses(mw.workspace_param)
                      THEN "Some" ELSE "None",
                   !.collab_object_id =
                      IF mw.object_param # Absent THEN "Some" ELSE "None"]
  /\ UNCHANGED hubVars

\* access_control_mw.rs:222-223: `let uid = uid.await?` when either id is
\* there; the user cache answers with the uid or with an error.
mw_resolve_uid ==
  /\ mw.pc = "enter"
  /\ IF NeedsAccessControl(mw.workspace_id, mw.collab_object_id)
     THEN \E found \in BOOLEAN :
            mw' = IF found
                  THEN [mw EXCEPT !.pc = "workspace", !.uid = "resolved"]
                  ELSE [mw EXCEPT !.pc = "done", !.response = "Internal"]
     ELSE mw' = [mw EXCEPT !.pc = "forward"]
  /\ UNCHANGED hubVars

\* Mutant: a check is made for a resource without a registered service.
ServiceRegisteredAlways(resource) == TRUE

\* access_control_mw.rs:226, 243: services.get(&resource) is Some.
ServiceRegistered(resource) == resource \in mw.services

\* A permission check the middleware made: the resource, the method it
\* passed, and the service's answer.
Check(resource, method, allowed) ==
  [resource |-> resource, method |-> method, allowed |-> allowed]

\* Mutant: a denied workspace check is logged and the request goes on.
WorkspaceCheckedIgnoringDenial(allowed) ==
  [mw EXCEPT !.pc = "collab",
             !.checks = Append(@, Check("Workspace", mw.method, allowed))]

\* access_control_mw.rs:228-238: the outcome of check_workspace_permission;
\* `return Err(..)` on its error.
WorkspaceChecked(allowed) ==
  IF allowed
  THEN [mw EXCEPT !.pc = "collab",
                  !.checks = Append(@, Check("Workspace", mw.method, TRUE))]
  ELSE [mw EXCEPT !.pc = "done",
                  !.checks = Append(@, Check("Workspace", mw.method, FALSE)),
                  !.response = "Forbidden"]

\* access_control_mw.rs:226-240: the workspace check, made when the id is
\* Some and a Workspace service is registered; its error ends the request.
mw_check_workspace ==
  /\ mw.pc = "workspace"
  /\ IF mw.workspace_id = "Some" /\ ServiceRegistered("Workspace")
     THEN \E allowed \in BOOLEAN : mw' = WorkspaceChecked(allowed)
     ELSE mw' = [mw EXCEPT !.pc = "collab"]
  /\ UNCHANGED hubVars

\* access_control_mw.rs:243-257: the collab check, likewise.
mw_check_collab ==
  /\ mw.pc = "collab"
  /\ IF mw.collab_object_id = "Some" /\ ServiceRegistered("Collab")
     THEN \E allowed \in BOOLEAN :
            mw' = IF allowed
                  THEN [mw EXCEPT
                          !.pc = "forward",
                          !.checks = Append(@, Check("Collab", mw.method,
                                                     TRUE))]
                  ELSE [mw EXCEPT
                          !.pc = "done",
                          !.checks = Append(@, Check("Collab", mw.method,
                                                     FALSE)),
                          !.response = "Forbidden"]
     ELSE mw' = [mw EXCEPT !.pc = "forward"]
  /\ UNCHANGED hubVars

\* access_control_mw.rs:261 (and 186-187): the inner service's future is
\* awaited and its response is the middleware's.
mw_forward ==
  /\ mw.pc = "forward"
  /\ mw' = [mw EXCEPT !.pc = "done", !.inner = "polled",
                      !.response = "forwarded"]
  /\ UNCHANGED hubVars

\* The next request arrives.
mw_request ==
  /\ mw.pc = "done"
  /\ mw' \in Requests
  /\ UNCHANGED hubVars

(***************************************************************************)
(* The access policy: the memberships the CRUD layer persists, the casbin  *)
(* model, and PgAdapter, which loads the one into the other.               *)
(***************************************************************************)
MaxPolicyUsers == 2
MaxAdapterCalls == 2
MaxEdits == 1

PolicyUsers == 1..MaxPolicyUsers
NoRow == "no_row"
NoFilter == "no_filter"
WorkspaceId == "workspace-1"
CollabObjectId == "object-1"

\* adapter.rs:84-89: the access levels, in the order load_policy visits them.
AccessLevels == <<"ReadOnly", "ReadAndComment", "ReadAndWrite", "FullAccess">>
Levels == {AccessLevels[i] : i \in 1..Len(AccessLevels)}
Roles == {"Owner", "Member", "Guest"}
Actions == {"Read", "Write", "Delete"}
Filters == {NoFilter} \cup {ToString(u) : u \in PolicyUsers}

\* ObjectType::Workspace(id) / ObjectType::Collab(id) as a casbin object.
to_object_id(object_type, id) == <<object_type, id>>

\* ToCasbinAction::to_action for a role, an access level and an action: the
\* casbin string of the value, distinct for distinct values.
to_action(kind, value) == <<kind, value>>

\* AFAccessLevel::can_write and can_delete: the level table.
can_write(level) == level \in {"ReadAndWrite", "FullAccess"}
can_delete(level) == level = "FullAccess"

\* The casbin model: the "p" policies and the "g" grouping rules.
EmptyModel == [p |-> {}, g |-> {}]

\* Model::add_policies(sec, ptype, rules): the rules join the section.
add_policies(model, sec, rules) ==
  IF sec = "p"
  THEN [model EXCEPT !.p = @ \cup {rules[i] : i \in 1..Len(rules)}]
  ELSE [model EXCEPT !.g = @ \cup {rules[i] : i \in 1..Len(rules)}]

\* The enforcer's matcher: some policy of the subject on the object has an
\* act that the grouping rules expand to the requested action.
check(uid, object, action) ==
  \E pol \in policy.model.p :
    /\ pol[1] = ToString(uid)
    /\ pol[2] = object
    /\ <<pol[3], to_action("action", action)>> \in policy.model.g

\* Nothing persisted, nothing loaded, the adapter idle.
NoPolicy ==
  [workspace_member |-> [u \in PolicyUsers |-> NoRow],
   collab_member |-> [u \in PolicyUsers |-> NoRow],
   model |-> EmptyModel,
   before |-> EmptyModel,
   pc |-> "idle",
   op |-> "none",
   filter |-> NoFilter,
   stream |-> <<>>,
   policies |-> <<>>,
   result |-> "none",
   loaded |-> "none",
   stale |-> FALSE,
   calls |-> 0,
   edits |-> 0]

\* adapter.rs:70: select_workspace_member_perm_stream, every row of the
\* workspace memberships as they are when the query runs.
select_workspace_member_perm_stream ==
  SelectSeq([u \in PolicyUsers |->
               [uid |-> u, workspace_id |-> WorkspaceId,
                role |-> policy.workspace_member[u]]],
            LAMBDA row : row.role # NoRow)

\* adapter.rs:76: select_collab_member_access_level, every row of the collab
\* memberships as they are when the query runs.
select_collab_member_access_level ==
  SelectSeq([u \in PolicyUsers |->
               [uid |-> u, oid |-> CollabObjectId,
                access_level |-> policy.collab_member[u]]],
            LAMBDA row : row.access_level # NoRow)

\* Mutant: the workspace query restricted by the filter's subject.
select_workspace_member_perm_stream_filtered(f) ==
  SelectSeq(select_workspace_member_perm_stream,
            LAMBDA row : f = NoFilter \/ ToString(row.uid) = f)

\* adapter.rs:107-110: load_filtered_policy drops its filter `_f` and calls
\* load_policy, whose first query takes the pool only.
workspace_stream(f) == select_workspace_member_perm_stream

\* adapter.rs:57-61: the policy of one workspace membership row.
workspace_policy(row) ==
  << ToString(row.uid),
     to_object_id("Workspace", row.workspace_id),
     to_action("role", row.role) >>

\* Mutant: every collab member is given FullAccess.
collab_policy_full_access(row) ==
  << ToString(row.uid),
     to_object_id("Collab", row.oid),
     to_action("level", "FullAccess") >>

\* adapter.rs:36-42: the policy of one collab membership row.
collab_policy(row) ==
  << ToString(row.uid),
     to_object_id("Collab", row.oid),
     to_action("level", row.access_level) >>

\* Mutant: every level is expanded to Read and Write.
level_grouping_with_write(level) ==
  << <<to_action("level", level), to_action("action", "Read")>>,
     <<to_action("level", level), to_action("action", "Write")>> >>

\* adapter.rs:90-98: the grouping rules of one level: Read, then Write if
\* the level can write, then Delete if it can delete.
level_grouping(level) ==
  << <<to_action("level", level), to_action("action", "Read")>> >>
  \o (IF can_write(level)
      THEN << <<to_action("level", level), to_action("action", "Write")>> >>
      ELSE <<>>)
  \o (IF can_delete(level)
      THEN << <<to_action("level", level), to_action("action", "Delete")>> >>
      ELSE <<>>)

\* adapter.rs:83-99: the grouping rules of the four levels, in order.
grouping_policies ==
  level_grouping(AccessLevels[1]) \o level_grouping(AccessLevels[2])
    \o level_grouping(AccessLevels[3]) \o level_grouping(AccessLevels[4])

\* The enforcer clears its model before it hands it to the adapter for a
\* load; `before` keeps what the model held.
EnforcerCleared ==
  [policy EXCEPT !.before = policy.model, !.model = EmptyModel]

\* adapter.rs:69-70: load_policy is entered with the cleared model and opens
\* the workspace stream.
LoadStarted(op, f) ==
  [EnforcerCleared EXCEPT
                 !.pc = "workspace_stream",
                 !.op = op,
                 !.filter = f,
                 !.stream = workspace_stream(f),
                 !.policies = <<>>,
                 !.result = "none",
                 !.loaded = "loading",
                 !.stale = FALSE,
                 !.calls = @ + 1]

\* Mutant: the policies read before the failing row are added to the model.
RowFailedKeepingRows(stream_name) ==
  [policy EXCEPT !.model = add_policies(@, "p", policy.policies),
                 !.pc = "idle", !.stream = <<>>, !.policies = <<>>,
                 !.result = "Err", !.loaded = stream_name]

\* adapter.rs:35, 55: `result.map_err(..)?` on an error row: the policies
\* read so far are dropped and the error is load_policy's result (71, 77).
RowFailed(stream_name) ==
  [policy EXCEPT !.pc = "idle", !.stream = <<>>, !.policies = <<>>,
                 !.result = "Err", !.loaded = stream_name]

\* adapter.rs:69-70: load_policy.
load_policy ==
  /\ policy.pc = "idle"
  /\ policy.calls < MaxAdapterCalls
  /\ policy' = LoadStarted("load_policy", NoFilter)
  /\ UNCHANGED nonPolicyVars

\* adapter.rs:107-110: load_filtered_policy.
load_filtered_policy ==
  /\ policy.pc = "idle"
  /\ policy.calls < MaxAdapterCalls
  /\ \E f \in Filters : policy' = LoadStarted("load_filtered_policy", f)
  /\ UNCHANGED nonPolicyVars

\* adapter.rs:53-62: create_workspace_policies takes one row of its stream;
\* an error row ends load_policy through `?` (55, 71).
create_workspace_policies ==
  /\ policy.pc = "workspace_stream"
  /\ policy.stream # <<>>
  /\ \E ok \in BOOLEAN :
       policy' =
         IF ok
         THEN [policy EXCEPT
                 !.stream = Tail(@),
                 !.policies = Append(@, workspace_policy(Head(policy.stream)))]
         ELSE RowFailed("workspace stream failed")
  /\ UNCHANGED nonPolicyVars

\* adapter.rs:64, 74-76: the workspace stream has ended: its policies are
\* added as one batch and the collab stream is opened.
load_policy_add_workspace ==
  /\ policy.pc = "workspace_stream"
  /\ policy.stream = <<>>
  /\ policy' = [policy EXCEPT
                  !.model = add_policies(@, "p", policy.policies),
                  !.pc = "collab_stream",
                  !.stream = select_collab_member_access_level,
                  !.policies = <<>>]
  /\ UNCHANGED nonPolicyVars

\* adapter.rs:34-43: create_collab_policies takes one row of its stream; an
\* error row ends load_policy through `?` (35, 77).
create_collab_policies ==
  /\ policy.pc = "collab_stream"
  /\ policy.stream # <<>>
  /\ \E ok \in BOOLEAN :
       policy' =
         IF ok
         THEN [policy EXCEPT
                 !.stream = Tail(@),
                 !.policies = Append(@, collab_policy(Head(policy.stream)))]
         ELSE RowFailed("collab stream failed")
  /\ UNCHANGED nonPolicyVars

\* adapter.rs:45, 80-104: the collab stream has ended: its policies are
\* added as one batch, then the grouping rules, and load_policy returns Ok.
load_policy_add_collab ==
  /\ policy.pc = "collab_stream"
  /\ policy.stream = <<>>
  /\ policy' = [policy EXCEPT
                  !.model = add_policies(
                              add_policies(@, "p", policy.policies),
                              "g", grouping_policies),
                  !.pc = "idle",
                  !.policies = <<>>,
                  !.result = "Ok",
                  !.loaded = "Ok"]
  /\ UNCHANGED nonPolicyVars

\* The rules a caller may hand to the adapter's write methods.
PolicyRules ==
  {<<ToString(1), to_object_id("Collab", CollabObjectId),
     to_action("level", l)>> : l \in {"ReadOnly", "FullAccess"}}

\* adapter.rs:111-179: a write method of the adapter: nothing but its
\* result.
Returned(op, result) ==
  [policy EXCEPT !.op = op, !.result = result, !.calls = @ + 1]

\* adapter.rs:111-117
save_policy ==
  /\ policy.pc = "idle"
  /\ policy.calls < MaxAdapterCalls
  /\ policy' = Returned("save_policy", "Ok")
  /\ UNCHANGED nonPolicyVars

\* adapter.rs:118-124
clear_policy ==
  /\ policy.pc = "idle"
  /\ policy.calls < MaxAdapterCalls
  /\ policy' = Returned("clear_policy", "Ok")
  /\ UNCHANGED nonPolicyVars

\* adapter.rs:129-135
add_policy ==
  /\ policy.pc = "idle"
  /\ policy.calls < MaxAdapterCalls
  /\ \E rule \in PolicyRules : policy' = Returned("add_policy", "Ok(true)")
  /\ UNCHANGED nonPolicyVars

\* adapter.rs:136-147
adapter_add_policies ==
  /\ policy.pc = "idle"
  /\ policy.calls < MaxAdapterCalls
  /\ \E rules \in SUBSET PolicyRules :
       policy' = Returned("add_policies", "Ok(true)")
  /\ UNCHANGED nonPolicyVars

\* adapter.rs:148-154
remove_policy ==
  /\ policy.pc = "idle"
  /\ policy.calls < MaxAdapterCalls
  /\ \E rule \in PolicyRules : policy' = Returned("remove_policy", "Ok(true)")
  /\ UNCHANGED nonPolicyVars

\* adapter.rs:155-166
remove_policies ==
  /\ policy.pc = "idle"
  /\ policy.calls < MaxAdapterCalls
  /\ \E rules \in SUBSET PolicyRules :
       policy' = Returned("remove_policies", "Ok(true)")
  /\ UNCHANGED nonPolicyVars

\* adapter.rs:167-179
remove_filtered_policy ==
  /\ policy.pc = "idle"
  /\ policy.calls < MaxAdapterCalls
  /\ \E field_index \in 0..1, field_values \in SUBSET {ToString(1)} :
       policy' = Returned("remove_filtered_policy", "Ok(true)")
  /\ UNCHANGED nonPolicyVars

\* The CRUD layer changes, adds or deletes a user's collab membership.
crud_collab_member ==
  /\ policy.edits < MaxEdits
  /\ \E u \in PolicyUsers, level \in (Levels \cup {NoRow}) :
       /\ level # policy.collab_member[u]
       /\ policy' = [policy EXCEPT !.collab_member[u] = level,
                                   !.stale = TRUE,
                                   !.edits = @ + 1]
  /\ UNCHANGED nonPolicyVars

\* The CRUD layer changes, adds or deletes a user's workspace membership.
crud_workspace_member ==
  /\ policy.edits < MaxEdits
  /\ \E u \in PolicyUsers, role \in (Roles \cup {NoRow}) :
       /\ role # policy.workspace_member[u]
       /\ policy' = [policy EXCEPT !.workspace_member[u] = role,
                                   !.stale = TRUE,
                                   !.edits = @ + 1]
  /\ UNCHANGED nonPolicyVars

(***************************************************************************)
(* The state after CollabGroupCache::new, group.rs:33-39.                  *)
(***************************************************************************)
CacheNew ==
  /\ debug_assertions = TRUE
  /\ group_by_object_id = [o \in Objects |-> NoGroup]
  /\ regLock = [writer |-> NoTask, readers |-> {}]
  /\ groups = <<>>
  /\ subscriptions = <<>>
  /\ storage = [o \in Objects |-> {}]
  /\ collab_cache = [o \in Objects |-> NoGroup]
  /\ now = 0
  /\ clockAdvances = 0
  /\ updates = 0
  /\ calls = 0
  /\ tasks = [t \in Tasks |-> IdleTask]

Init == CacheNew /\ mw = NoRequest /\ policy = NoPolicy

Next ==
  \/ \E t \in Tasks, o \in CallObjects : create_group_if_need(t, o)
  \/ \E t \in Tasks : init_group_initialize(t)
  \/ \E t \in Tasks : init_group_cache_collab(t)
  \/ \E t \in Tasks : create_group_insert(t)
  \/ \E t \in Tasks, o \in CallObjects : remove_group(t, o)
  \/ \E t \in Tasks : remove_group_flush(t)
  \/ \E t \in Tasks : remove_group_stop(t)
  \/ \E t \in Tasks : remove_group_evict(t)
  \/ \E t \in Tasks : tick(t)
  \/ \E t \in Tasks, o \in Objects : tick_scan(t, o)
  \/ \E t \in Tasks : tick_reap(t)
  \/ \E t \in Tasks, o \in CallObjects, u \in CallUsers :
       remove_user(t, o, u)
  \/ \E s \in DOMAIN subscriptions : spawned_stop(s)
  \/ \E t \in Tasks, o \in CallObjects, u \in CallUsers :
       subscribe_get_group(t, o, u)
  \/ \E t \in Tasks : subscribe_lock(t)
  \/ \E t \in Tasks : subscribe_insert(t)
  \/ \E s \in DOMAIN subscriptions : apply_update(s)
  \/ \E d \in ClockSteps : advance_clock(d)

Spec == Init /\ [][Next]_vars

(***************************************************************************)
(* The reaper alone, on a full registry: every object id has had its group *)
(* created (create_group_if_need, one after the other, at time 0, from an  *)
(* empty store), and from then on only tick runs while time passes.        *)
(***************************************************************************)
CreatedGroup(o) ==
  [NewGroup(o, CollabTypeOf(o)) EXCEPT !.initialized = TRUE,
                                       !.observing = TRUE]

InitReaper ==
  /\ debug_assertions = TRUE
  /\ now = 0
  /\ group_by_object_id = [o \in Objects |-> o]
  /\ regLock = [writer |-> NoTask, readers |-> {}]
  /\ groups = [g \in 1..MaxObjects |-> CreatedGroup(g)]
  /\ subscriptions = <<>>
  /\ storage = [o \in Objects |-> {}]
  /\ collab_cache = [o \in Objects |-> o]
  /\ clockAdvances = 0
  /\ updates = 0
  /\ calls = 0
  /\ tasks = [t \in Tasks |-> IdleTask]
  /\ mw = NoRequest /\ policy = NoPolicy

NextReaper ==
  \/ tick(1)
  \/ \E o \in Objects : tick_scan(1, o)
  \/ tick_reap(1)
  \/ remove_group_flush(1)
  \/ remove_group_evict(1)
  \/ \E d \in ClockSteps : advance_clock(d)

SpecReaper == InitReaper /\ [][NextReaper]_vars

(***************************************************************************)
(* The reaper on a full registry in either build: one group per collab     *)
(* type (object o has type CollabTypeOf(o)), all created at time 0.        *)
(***************************************************************************)
InitTimeout ==
  /\ debug_assertions \in BOOLEAN
  /\ now = 0
  /\ group_by_object_id = [o \in Objects |-> o]
  /\ regLock = [writer |-> NoTask, readers |-> {}]
  /\ groups = [g \in 1..MaxObjects |-> CreatedGroup(g)]
  /\ subscriptions = <<>>
  /\ storage = [o \in Objects |-> {}]
  /\ collab_cache = [o \in Objects |-> o]
  /\ clockAdvances = 0
  /\ updates = 0
  /\ calls = 0
  /\ tasks = [t \in Tasks |-> IdleTask]
  /\ mw = NoRequest /\ policy = NoPolicy

SpecTimeout == InitTimeout /\ [][NextReaper]_vars

(***************************************************************************)
(* The fair reaper.  The registry holds a group for every object id; each  *)
(* was last written either 121 s ago (past the debug build's timeout) or   *)
(* just now.  Group 1 holds update 1, not yet flushed, and its user is     *)
(* still connected.  Task 1 is the interval driver and also the only       *)
(* caller of create_group_if_need, so the registry lock is free whenever   *)
(* tick runs.  Every step of a call in progress is taken eventually, and   *)
(* tick is called again and again.                                         *)
(***************************************************************************)
ReaperStart == 1000 * (timeout_secs(TRUE, "Document") + 1)

InitFairReaper ==
  /\ debug_assertions = TRUE
  /\ now = ReaperStart
  /\ group_by_object_id = [o \in Objects |-> o]
  /\ regLock = [writer |-> NoTask, readers |-> {}]
  /\ \E stale \in SUBSET Objects :
       groups = [g \in 1..MaxObjects |->
                  [CreatedGroup(g) EXCEPT
                     !.modified_at = IF g \in stale THEN 0 ELSE now,
                     !.replica = IF g = 1 THEN {1} ELSE {},
                     !.channel = IF g = 1 THEN <<Message("update", 1, 1)>>
                                 ELSE <<>>,
                     !.subscribers = IF g = 1
                                     THEN [u \in Users |->
                                             IF u = 1 THEN 1
                                             ELSE NoSubscription]
                                     ELSE @]]
  /\ subscriptions = << [group |-> 1, user |-> 1, state |-> "running",
                         stopped_by |-> "none", cursor |-> 2,
                         received |-> <<>>] >>
  /\ storage = [o \in Objects |-> {}]
  /\ collab_cache = [o \in Objects |-> o]
  /\ clockAdvances = 0
  /\ updates = 1
  /\ calls = 0
  /\ tasks = [t \in Tasks |-> IdleTask]
  /\ mw = NoRequest /\ policy = NoPolicy

ReaperSteps ==
  \/ interval_tick(1)
  \/ \E o \in Objects : tick_scan(1, o)
  \/ tick_reap(1)
  \/ remove_group_flush(1)
  \/ remove_group_stop(1)
  \/ remove_group_evict(1)
  \/ init_group_initialize(1)
  \/ init_group_cache_collab(1)
  \/ create_group_insert(1)

NextFairReaper ==
  \/ ReaperSteps
  \/ \E o \in CallObjects : create_group_if_need(1, o)

SpecFairReaper ==
  InitFairReaper /\ [][NextFairReaper]_vars /\ WF_vars(ReaperSteps)

(***************************************************************************)
(* Users joining and leaving.  Some of the call objects have a registered  *)
(* group; tasks subscribe any user, remove any user, and create the        *)
(* missing groups (holding the registry lock while they do).               *)
(***************************************************************************)
RankIn(reg, o) == Cardinality({p \in reg : p <= o})

InitUsers ==
  /\ debug_assertions = TRUE
  /\ now = 0
  /\ \E reg \in SUBSET CallObjects :
       /\ group_by_object_id =
            [o \in Objects |-> IF o \in reg THEN RankIn(reg, o) ELSE NoGroup]
       /\ groups = [g \in 1..Cardinality(reg) |->
                     CreatedGroup(CHOOSE o \in reg : RankIn(reg, o) = g)]
       /\ collab_cache =
            [o \in Objects |-> IF o \in reg THEN RankIn(reg, o) ELSE NoGroup]
  /\ regLock = [writer |-> NoTask, readers |-> {}]
  /\ subscriptions = <<>>
  /\ storage = [o \in Objects |-> {}]
  /\ clockAdvances = 0
  /\ updates = 0
  /\ calls = 0
  /\ tasks = [t \in Tasks |-> IdleTask]
  /\ mw = NoRequest /\ policy = NoPolicy

NextUsers ==
  \/ \E t \in Tasks, o \in CallObjects : create_group_if_need(t, o)
  \/ \E t \in Tasks : init_group_initialize(t)
  \/ \E t \in Tasks : init_group_cache_collab(t)
  \/ \E t \in Tasks : create_group_insert(t)
  \/ \E t \in Tasks, o \in CallObjects, u \in Users : remove_user(t, o, u)
  \/ \E s \in DOMAIN subscriptions : spawned_stop(s)
  \/ \E t \in Tasks, o \in CallObjects, u \in Users :
       subscribe_get_group(t, o, u)
  \/ \E t \in Tasks : subscribe_lock(t)
  \/ \E t \in Tasks : subscribe_insert(t)

SpecUsers == InitUsers /\ [][NextUsers]_vars

(***************************************************************************)
(* The lookups, called while users join and leave and groups are created.  *)
(***************************************************************************)
NextLookups ==
  \/ NextUsers
  \/ \E t \in Tasks, o \in CallObjects, u \in Users : contains_user(t, o, u)
  \/ \E t \in Tasks, o \in CallObjects : contains_group(t, o)
  \/ \E t \in Tasks, o \in CallObjects : get_group_call(t, o)
  \/ \E t \in Tasks : number_of_groups(t)

SpecLookups == InitUsers /\ [][NextLookups]_vars

(***************************************************************************)
(* Inbound traffic while time passes: groups are created, users subscribe, *)
(* and their subscriptions take in updates that apply, updates that fail   *)
(* to apply, and awareness updates.                                        *)
(***************************************************************************)
NextInbound ==
  \/ \E t \in Tasks, o \in CallObjects : create_group_if_need(t, o)
  \/ \E t \in Tasks : init_group_initialize(t)
  \/ \E t \in Tasks : init_group_cache_collab(t)
  \/ \E t \in Tasks : create_group_insert(t)
  \/ \E t \in Tasks, o \in CallObjects, u \in CallUsers :
       subscribe_get_group(t, o, u)
  \/ \E t \in Tasks : subscribe_lock(t)
  \/ \E t \in Tasks : subscribe_insert(t)
  \/ \E s \in DOMAIN subscriptions : apply_update(s)
  \/ \E s \in DOMAIN subscriptions : reject_update(s)
  \/ \E s \in DOMAIN subscriptions : awareness_update(s)
  \/ \E d \in ClockSteps : advance_clock(d)

SpecInbound == Init /\ [][NextInbound]_vars

(***************************************************************************)
(* CollabGroup's operations on the replica, group.rs:254-286, called by    *)
(* tasks that hold the group (a caller gets it from get_group).  Each      *)
(* blocks on the replica's mutex, works, and drops the guard.              *)
(***************************************************************************)
ReplicaCall(t, op, pc) ==
  /\ Begin(t)
  /\ \E o \in CallObjects :
       /\ get_group(o) # NoGroup
       /\ tasks' = [tasks EXCEPT
            ![t] = [Call(op, o, 0) EXCEPT !.pc = pc, !.gid = get_group(o)]]
  /\ UNCHANGED <<policy, mw, debug_assertions, group_by_object_id, regLock, groups,
                 subscriptions, storage, collab_cache, now, clockAdvances,
                 updates>>

\* collab.lock() returns: the task is inside the replica and sees its state.
ReplicaLock(t, at, pc) ==
  /\ tasks[t].pc = at
  /\ CollabLockFree(tasks[t].gid)
  /\ groups' = [groups EXCEPT ![tasks[t].gid].collab_lock = t]
  /\ tasks' = [tasks EXCEPT ![t].pc = pc,
                            ![t].snapshot = groups[tasks[t].gid].replica]
  /\ UNCHANGED <<policy, mw, debug_assertions, group_by_object_id, regLock, subscriptions,
                 storage, collab_cache, now, clockAdvances, updates, calls>>

\* group.rs:280-286: flush_collab spawns the blocking closure and awaits it.
flush_collab(t) == ReplicaCall(t, "flush_collab", "flush_lock")

\* group.rs:283: collab.lock()
flush_collab_lock(t) == ReplicaLock(t, "flush_lock", "flush_flush")

\* group.rs:283: .flush(), and the guard is dropped.
flush_collab_flush(t) ==
  /\ tasks[t].pc = "flush_flush"
  /\ storage' = PluginFlush(tasks[t].gid)
  /\ groups' = [groups EXCEPT ![tasks[t].gid].collab_lock = NoTask,
                              ![tasks[t].gid].flushed = TRUE]
  /\ tasks' = [tasks EXCEPT ![t] = Return(tasks[t], "Unit", "none")]
  /\ UNCHANGED <<policy, mw, debug_assertions, group_by_object_id, regLock, subscriptions,
                 collab_cache, now, clockAdvances, updates, calls>>

\* group.rs:255-261: get_mut_collab(f)
get_mut_collab(t) == ReplicaCall(t, "get_mut_collab", "mut_lock")

\* group.rs:259: let collab = self.collab.lock()
get_mut_collab_lock(t) == ReplicaLock(t, "mut_lock", "mut_f")

\* group.rs:260: f(&collab) mutates the replica (the broadcast observes the
\* change, origin server); the guard is dropped at the end of the function.
get_mut_collab_f(t) ==
  LET g == tasks[t].gid IN
  /\ tasks[t].pc = "mut_f"
  /\ updates < MaxUpdates
  /\ updates' = updates + 1
  /\ groups' = [groups EXCEPT
       ![g].replica = @ \cup {updates + 1},
       ![g].channel = Append(@, Message("update", updates + 1,
                                        NoSubscription)),
       ![g].collab_lock = NoTask]
  /\ tasks' = [tasks EXCEPT ![t] = Return(tasks[t], "Unit", "none")]
  /\ UNCHANGED <<policy, mw, debug_assertions, group_by_object_id, regLock, subscriptions,
                 storage, collab_cache, now, clockAdvances, calls>>

\* group.rs:263-265: encode_v1
encode_v1(t) == ReplicaCall(t, "encode_v1", "encode_lock")

\* group.rs:264: self.collab.lock()
encode_v1_lock(t) == ReplicaLock(t, "encode_lock", "encode_encode")

\* group.rs:264: .encode_collab_v1() of the replica as it is now; the guard
\* is dropped.
encode_v1_encode(t) ==
  LET g == tasks[t].gid IN
  /\ tasks[t].pc = "encode_encode"
  /\ groups' = [groups EXCEPT ![g].collab_lock = NoTask]
  /\ tasks' = [tasks EXCEPT
       ![t] = Return([tasks[t] EXCEPT !.snapshot = groups[g].replica],
                     "EncodedCollab", "none")]
  /\ UNCHANGED <<policy, mw, debug_assertions, group_by_object_id, regLock, subscriptions,
                 storage, collab_cache, now, clockAdvances, updates, calls>>

\* A registered group of object 1 with one subscriber.
InitReplica ==
  /\ debug_assertions = TRUE
  /\ now = 0
  /\ group_by_object_id = [o \in Objects |-> IF o = 1 THEN 1 ELSE NoGroup]
  /\ regLock = [writer |-> NoTask, readers |-> {}]
  /\ groups = << [CreatedGroup(1) EXCEPT
                    !.subscribers = [u \in Users |->
                                       IF u = 1 THEN 1 ELSE NoSubscription]] >>
  /\ subscriptions = << [group |-> 1, user |-> 1, state |-> "running",
                         stopped_by |-> "none", cursor |-> 1,
                         received |-> <<>>] >>
  /\ storage = [o \in Objects |-> {}]
  /\ collab_cache = [o \in Objects |-> IF o = 1 THEN 1 ELSE NoGroup]
  /\ clockAdvances = 0
  /\ updates = 0
  /\ calls = 0
  /\ tasks = [t \in Tasks |-> IdleTask]
  /\ mw = NoRequest /\ policy = NoPolicy

NextReplica ==
  \/ \E t \in Tasks : flush_collab(t)
  \/ \E t \in Tasks : flush_collab_lock(t)
  \/ \E t \in Tasks : flush_collab_flush(t)
  \/ \E t \in Tasks : get_mut_collab(t)
  \/ \E t \in Tasks : get_mut_collab_lock(t)
  \/ \E t \in Tasks : get_mut_collab_f(t)
  \/ \E t \in Tasks : encode_v1(t)
  \/ \E t \in Tasks : encode_v1_lock(t)
  \/ \E t \in Tasks : encode_v1_encode(t)
  \/ \E s \in DOMAIN subscriptions : apply_update(s)

SpecReplica == InitReplica /\ [][NextReplica]_vars

(***************************************************************************)
(* One group's broadcast: both users of the registered group of object 1   *)
(* are subscribed; their subscriptions apply updates and send awareness    *)
(* states, and take messages from the channel at their own pace.           *)
(***************************************************************************)
InitBroadcast ==
  /\ debug_assertions = TRUE
  /\ now = 0
  /\ group_by_object_id = [o \in Objects |-> IF o = 1 THEN 1 ELSE NoGroup]
  /\ regLock = [writer |-> NoTask, readers |-> {}]
  /\ groups = << [CreatedGroup(1) EXCEPT
                    !.subscribers = [u \in Users |->
                                       IF u <= 2 THEN u ELSE NoSubscription]] >>
  /\ subscriptions = [s \in 1..2 |->
                        [group |-> 1, user |-> s, state |-> "running",
                         stopped_by |-> "none", cursor |-> 1,
                         received |-> <<>>]]
  /\ storage = [o \in Objects |-> {}]
  /\ collab_cache = [o \in Objects |-> IF o = 1 THEN 1 ELSE NoGroup]
  /\ clockAdvances = 0
  /\ updates = 0
  /\ calls = 0
  /\ tasks = [t \in Tasks |-> IdleTask]
  /\ mw = NoRequest /\ policy = NoPolicy

AwarenessSent(g) ==
  Len(SelectSeq(groups[g].channel, LAMBDA m : m.kind = "awareness"))

\* User 1 edits, user 2 only moves the cursor.
NextBroadcast ==
  \/ updates < MaxMessages /\ inbound_update(1)
  \/ /\ updates < MaxMessages
     /\ AwarenessSent(1) < MaxAwareness
     /\ inbound_awareness(2)
  \/ \E s \in DOMAIN subscriptions : deliver(s)

SpecBroadcast == InitBroadcast /\ [][NextBroadcast]_vars

(***************************************************************************)
(* The HTTP access middleware, one request after the other.                *)
(***************************************************************************)
InitMiddleware == CacheNew /\ mw \in Requests /\ policy = NoPolicy

NextMiddleware ==
  \/ mw_call
  \/ mw_resolve_uid
  \/ mw_check_workspace
  \/ mw_check_collab
  \/ mw_forward
  \/ mw_request

SpecMiddleware == InitMiddleware /\ [][NextMiddleware]_vars

(***************************************************************************)
(* The policy adapter over every set of persisted memberships, with the    *)
(* CRUD layer editing them while the adapter loads.                        *)
(***************************************************************************)
InitPolicy ==
  /\ CacheNew
  /\ mw = NoRequest
  /\ \E w \in [PolicyUsers -> Roles \cup {NoRow}],
        c \in [PolicyUsers -> Levels \cup {NoRow}] :
       policy = [NoPolicy EXCEPT !.workspace_member = w, !.collab_member = c]

NextPolicy ==
  \/ load_policy
  \/ load_filtered_policy
  \/ create_workspace_policies
  \/ load_policy_add_workspace
  \/ create_collab_policies
  \/ load_policy_add_collab
  \/ save_policy
  \/ clear_policy
  \/ add_policy
  \/ adapter_add_policies
  \/ remove_policy
  \/ remove_policies
  \/ remove_filtered_policy
  \/ crud_collab_member
  \/ crud_workspace_member

SpecPolicy == InitPolicy /\ [][NextPolicy]_vars


(***************************************************************************)
(* Properties.                                                             *)
(***************************************************************************)
IsPrefix(a, b) == Len(a) <= Len(b) /\ \A i \in 1..Len(a) : a[i] = b[i]

Contains(seq, x) == \E i \in 1..Len(seq) : seq[i] = x

\* The groups of object o that no remove_group has taken out of the registry.
Live(o) ==
  {g \in DOMAIN groups : groups[g].object_id = o /\ ~groups[g].removed}

\* The group is being built by a create_group_if_need that has not returned.
UnderConstruction(g) ==
  \E t \in Tasks :
    /\ tasks[t].op = "create_group_if_need"
    /\ ~Idle(t)
    /\ tasks[t].gid = g

\* The groups the registry holds for object o, under whatever key.
RegisteredGroupsOf(o) ==
  {g \in DOMAIN groups :
     groups[g].object_id = o /\ \E k \in Objects : group_by_object_id[k] = g}

RegistryInv ==
  \A o \in Objects :
    /\ Cardinality(RegisteredGroupsOf(o)) <= 1
    /\ group_by_object_id[o] # NoGroup =>
         /\ group_by_object_id[o] \in DOMAIN groups
         /\ RegisteredGroupsOf(o) = {group_by_object_id[o]}

ExistingGroupKept ==
  \A t \in Tasks, o \in CallObjects :
    (group_by_object_id[o] # NoGroup /\ create_group_if_need(t, o)) =>
      /\ group_by_object_id' = group_by_object_id
      /\ groups' = groups
      /\ regLock' = regLock

(* C1: in every reachable state the registry holds at most one group per   *)
(* object id, each under its own id, and a create_group_if_need for an id  *)
(* that is registered leaves the registry, the groups (no new group, the   *)
(* existing one not re-initialised) and the lock as they were.             *)
C1_OneGroupPerObject == []RegistryInv /\ [][ExistingGroupKept]_vars

\* A create_group_if_need has returned after finding its object registered.
C1_Witness ==
  \E t \in Tasks :
    /\ Idle(t)
    /\ tasks[t].op = "create_group_if_need"
    /\ tasks[t].log = "already_exists"
    /\ group_by_object_id[tasks[t].object_id] # NoGroup

(* C2: for every object id at most one group has been constructed and not  *)
(* removed; at most one task is constructing at a time; and a constructed  *)
(* group that is not removed is in the registry as soon as its             *)
(* create_group_if_need has returned (nothing is lost or built twice).     *)
C2_SingleConstruction ==
  /\ Cardinality({t \in Tasks : tasks[t].op = "create_group_if_need"
                                  /\ ~Idle(t)}) <= 1
  /\ \A o \in Objects :
       /\ Cardinality(Live(o)) <= 1
       /\ \A g \in Live(o) :
            /\ UnderConstruction(g) \/ group_by_object_id[o] = g
            /\ UnderConstruction(g) => group_by_object_id[o] = NoGroup
            /\ ~UnderConstruction(g) => groups[g].initialized

\* Two create_group_if_need calls for one unregistered id overlapped: one
\* built the only group there is, the other found the lock busy, and both
\* have returned.
C2_Witness ==
  \E t1, t2 \in Tasks :
    /\ t1 # t2
    /\ Idle(t1) /\ Idle(t2)
    /\ tasks[t1].op = "create_group_if_need"
    /\ tasks[t2].op = "create_group_if_need"
    /\ tasks[t1].object_id = tasks[t2].object_id
    /\ tasks[t1].log = "created"
    /\ tasks[t2].log = "create_lock_error"
    /\ Len(groups) = 1
    /\ calls = 2
    /\ group_by_object_id[tasks[t1].object_id] = 1

(* C3 (the claim as stated): a create_group_if_need that could not take    *)
(* the write lock has returned a RegistryBusy error to its caller.         *)
C3_LockFailureReported ==
  \A t \in Tasks :
    (Idle(t) /\ tasks[t].op = "create_group_if_need"
       /\ tasks[t].log = "create_lock_error") => tasks[t].ret = "RegistryBusy"

\* The orders of remove_group's steps on a registered group: with the stop
\* loop, and without it (no subscriber, or the subscribers lock busy).
RemoveOrders ==
  { <<"remove", "unlock", "flush", "stop", "evict">>,
    <<"remove", "unlock", "flush", "evict">> }

C5_EvictionKeepsLatestState ==
  [][\A t \in Tasks :
       (remove_group_evict(t) /\ tasks[t].gid # NoGroup
          /\ Contains(tasks[t].events, "stop")
          /\ groups[tasks[t].gid].replica # {}) =>
         groups[tasks[t].gid].replica \subseteq storage'[tasks[t].object_id]
    ]_vars

\* The awaits of the cache that touch a replica: its initial load, its flush.
ReplicaAwaits == {"init_initialize", "rg_flush"}

(* C6 (the claim as stated): no task holds the registry lock while it      *)
(* awaits the replica's initial load or flush.                             *)
C6_NoRegistryLockAcrossReplicaAwait ==
  \A t \in Tasks : tasks[t].pc \in ReplicaAwaits => ~HoldsRegistry(t)

(* C7 (the claim as stated): one call of tick removes at most 5 groups.    *)
C7_TickRemovesAtMostFive ==
  \A t \in Tasks : tasks[t].op = "tick" => tasks[t].removed <= 5

(* C8 (the claim as stated): a group whose registry entry tick removes is  *)
(* inactive at the moment of the removal.                                  *)
C8_TickRemovesOnlyInactive ==
  [][\A t \in Tasks :
       (tick_reap(t) /\ tasks'[t].pc = "rg_flush") =>
         is_inactive(tasks'[t].gid)
    ]_vars

(* C9 (the claim as stated): a registered group with no subscribers is     *)
(* selected for removal by tick's scan, whenever it was modified.          *)
C9_EmptyGroupSelected ==
  [][\A t \in Tasks, o \in Objects :
       (tick_scan(t, o) /\ SubscribersOf(group_by_object_id[o]) = {}) =>
         Contains(tasks'[t].inactive_group_ids, o)
    ]_vars

ReleaseTimeout(collab_type) ==
  CASE collab_type = "Document" -> 600
    [] collab_type = "Database" -> 3600
    [] collab_type = "DatabaseRow" -> 3600
    [] collab_type = "WorkspaceDatabase" -> 7200
    [] collab_type = "Folder" -> 7200
    [] collab_type = "UserAwareness" -> 7200

(* C11: the timeout of every group is the table's value for its collab     *)
(* type in a release build and 120 s for every type in a debug build, and  *)
(* a group is inactive exactly when its whole elapsed seconds exceed it.   *)
C11_TimeoutTable ==
  \A g \in DOMAIN groups :
    LET ct == groups[g].collab_type
        t == IF debug_assertions THEN 120 ELSE ReleaseTimeout(ct)
    IN
    /\ timeout_secs(debug_assertions, ct) = t
    /\ timeout_secs(TRUE, ct) = 120
    /\ timeout_secs(FALSE, ct) = ReleaseTimeout(ct)
    /\ is_inactive(g) <=> as_secs(elapsed(groups[g].modified_at)) > t

\* A release build's tick, 3601 s after every group was created, has
\* scanned groups of all six types and selected the Document, Database and
\* DatabaseRow groups only.
C11_Witness ==
  /\ ~debug_assertions
  /\ now = 3601000
  /\ \E t \in Tasks :
       /\ tasks[t].op = "tick"
       /\ {groups[g].collab_type : g \in DOMAIN groups}
            = {CollabTypes[i] : i \in 1..Len(CollabTypes)}
       /\ {tasks[t].inactive_group_ids[i] :
             i \in 1..Len(tasks[t].inactive_group_ids)} = {1, 2, 3}
       /\ tasks[t].pc = "reap"

\* The groups the registry holds when the reaper starts.
InitialGroups == 1..MaxObjects

\* init_group's initialize() on a group no registry entry has ever named
\* leaves the replica equal to the object's durable state.
FreshGroupLoadsStorage ==
  \A t \in Tasks :
    init_group_initialize(t) =>
      LET g == tasks[t].gid IN
      /\ g = Len(groups)
      /\ ~groups[g].removed
      /\ \A o \in Objects : group_by_object_id[o] # g
      /\ groups'[g].replica = storage[groups[g].object_id]

UserPresent(o, u) ==
  /\ group_by_object_id[o] # NoGroup
  /\ groups[group_by_object_id[o]].subscribers[u] # NoSubscription

\* The effect of a remove_user that detaches: the user's entry is cleared,
\* that subscription leaves the running state, nothing else changes.
Detached(o, u) ==
  LET g == group_by_object_id[o]
      s == groups[g].subscribers[u]
  IN
  /\ groups' = [groups EXCEPT ![g].subscribers[u] = NoSubscription]
  /\ subscriptions' = [subscriptions EXCEPT ![s].state = "stopping"]
  /\ group_by_object_id' = group_by_object_id

\* The locks remove_user tries: the registry's read lock, then (for a
\* registered object) the group's subscribers lock.
RemoveUserLocksFree(o) ==
  /\ TryReadOk
  /\ group_by_object_id[o] # NoGroup =>
       groups[group_by_object_id[o]].subsLock = NoTask

(* C13 as stated: remove_user detaches and stops exactly that user's       *)
(* subscription, leaving the registry, the other users and the other       *)
(* groups alone; for an absent object or user it succeeds and changes      *)
(* nothing.                                                                *)
C13_RemoveUserAlwaysSucceeds ==
  [][\A t \in Tasks, o \in CallObjects, u \in Users :
       remove_user(t, o, u) =>
         IF UserPresent(o, u)
         THEN Detached(o, u)
         ELSE /\ tasks'[t].ret = "Ok"
              /\ UNCHANGED <<group_by_object_id, groups, subscriptions>>]_vars

(* C13, amended: when the locks it tries are free, remove_user returns Ok, *)
(* detaches exactly that user's subscription (stopped by a spawned task)   *)
(* and changes nothing else, or nothing at all when the object or the user *)
(* is absent; when a lock is busy it returns Err and changes nothing.      *)
C13_RemoveUserFrame ==
  [][\A t \in Tasks, o \in CallObjects, u \in Users :
       remove_user(t, o, u) =>
         IF ~RemoveUserLocksFree(o)
         THEN /\ tasks'[t].ret = "Err"
              /\ UNCHANGED <<group_by_object_id, groups, subscriptions>>
         ELSE /\ tasks'[t].ret = "Ok"
              /\ IF UserPresent(o, u)
                 THEN Detached(o, u)
                 ELSE UNCHANGED <<group_by_object_id, groups,
                                  subscriptions>>]_vars

\* Two users were subscribed to one group; remove_user took user 1 out and
\* its subscription was stopped, while user 2's subscription is running and
\* still in the mapping of the registered group.
C13_Witness ==
  \E t \in Tasks, g \in DOMAIN groups :
    /\ tasks[t].op = "remove_user"
    /\ tasks[t].ret = "Ok"
    /\ tasks[t].log = "remove_subscriber"
    /\ tasks[t].user = 1
    /\ group_by_object_id[tasks[t].object_id] = g
    /\ groups[g].subscribers[1] = NoSubscription
    /\ groups[g].subscribers[2] # NoSubscription
    /\ subscriptions[groups[g].subscribers[2]].state = "running"
    /\ \E s \in DOMAIN subscriptions :
         /\ subscriptions[s].group = g
         /\ subscriptions[s].user = 1
         /\ subscriptions[s].stopped_by = "remove_user"

\* Every group's modified_at.
ModifiedAt == [g \in DOMAIN groups |-> groups[g].modified_at]

\* The updates applied to group g so far, in the order of their application.
Applied(g) == SelectSeq(groups[g].channel, LAMBDA m : m.kind = "update")

(* C14: a group's modified_at never decreases and is never in the future;  *)
(* a new group's modified_at is the instant of its construction; an        *)
(* applied update sets it to the instant of the apply; an update that      *)
(* fails to apply and an awareness update leave every modified_at alone.   *)
C14_ModifiedAtMonotonic ==
  /\ [](\A g \in DOMAIN groups : groups[g].modified_at <= now)
  /\ [][/\ \A g \in DOMAIN groups :
             groups'[g].modified_at >= groups[g].modified_at
        /\ \A g \in DOMAIN groups' \ DOMAIN groups :
             groups'[g].modified_at = now
        /\ \A s \in DOMAIN subscriptions :
             /\ apply_update(s) =>
                  /\ groups'[subscriptions[s].group].modified_at = now
                  /\ Len(Applied(subscriptions[s].group)') =
                       Len(Applied(subscriptions[s].group)) + 1
             /\ reject_update(s) \/ awareness_update(s) =>
                  /\ ModifiedAt' = ModifiedAt
                  /\ \A g \in DOMAIN groups :
                       Applied(g)' = Applied(g)]_vars

\* A group created after the clock had moved holds one applied update, made
\* later still, and has since seen an awareness update and more time pass:
\* modified_at is the instant of the apply, after the creation and before
\* now.
C14_Witness ==
  \E g \in DOMAIN groups :
    /\ Len(Applied(g)) = 1
    /\ Len(groups[g].channel) = 2
    /\ groups[g].channel[2].kind = "awareness"
    /\ groups[g].modified_at > 1000
    /\ groups[g].modified_at < now

\* The tasks that are between collab.lock() and the drop of its guard on
\* group g.
InsideReplica(g) ==
  {t \in Tasks : /\ tasks[t].pc \in {"flush_flush", "mut_f", "encode_encode"}
                 /\ tasks[t].gid = g}

(* C15: at most one of flush_collab, get_mut_collab and encode_v1 is       *)
(* inside a replica at any time, and it holds the replica's mutex; no      *)
(* update is applied while one of them is inside; a flush persists, and    *)
(* encode_v1 returns, the state the replica had when the lock was taken,   *)
(* which holds every mutation made before and none made after.             *)
C15_FlushExcludesMutation ==
  /\ [](\A g \in DOMAIN groups :
          /\ Cardinality(InsideReplica(g)) <= 1
          /\ \A t \in InsideReplica(g) : groups[g].collab_lock = t)
  /\ [][/\ \A t \in Tasks :
             /\ flush_collab_flush(t) =>
                  storage'[tasks[t].object_id] = tasks[t].snapshot
             /\ encode_v1_encode(t) =>
                  tasks'[t].snapshot = tasks[t].snapshot
        /\ \A g \in DOMAIN groups :
             groups'[g].replica # groups[g].replica =>
               InsideReplica(g) \subseteq
                 {t \in Tasks : tasks[t].pc = "mut_f"}]_vars

\* A flush has persisted update 1, made by get_mut_collab before the flush
\* took the lock, while the other task, which waited for the lock with its
\* mutation, has since added update 2 to the replica only.
C15_Witness ==
  \E t \in Tasks :
    /\ tasks[t].op = "flush_collab"
    /\ tasks[t].ret = "Unit"
    /\ tasks[t].snapshot = {1}
    /\ storage[1] = {1}
    /\ groups[1].replica = {1, 2}
    /\ groups[1].channel[2].origin = NoSubscription

\* The group's initial load is done and the broadcast observes its replica.
Loaded(g) == groups[g].initialized /\ groups[g].observing

(* C16: a group the registry names has completed initialize() and is       *)
(* observed by its broadcast; a group that has not is returned by no       *)
(* get_group; every subscription belongs to a group whose initial load     *)
(* has completed.                                                          *)
C16_LoadBeforeSubscription ==
  /\ \A o \in Objects :
       group_by_object_id[o] # NoGroup => Loaded(group_by_object_id[o])
  /\ \A g \in DOMAIN groups :
       ~Loaded(g) => \A o \in Objects : get_group(o) # g
  /\ \A s \in DOMAIN subscriptions : Loaded(subscriptions[s].group)
  /\ \A t \in Subscribing : Loaded(tasks[t].gid)

\* A subscriber is attached to a loaded, registered group while the group
\* of another object is still loading and no lookup returns it.
C16_Witness ==
  \E s \in DOMAIN subscriptions, g \in DOMAIN groups :
    /\ subscriptions[s].state = "running"
    /\ Loaded(subscriptions[s].group)
    /\ group_by_object_id[groups[subscriptions[s].group].object_id]
         = subscriptions[s].group
    /\ UnderConstruction(g)
    /\ ~groups[g].initialized
    /\ get_group(groups[g].object_id) = NoGroup

(* C17: when remove_group returns after removing a registered group,       *)
(* every subscription that was in the group's mapping when remove_group    *)
(* reached the stop step (group.rs:115) has been stopped.                  *)
C17_EvictionStopsEverySubscription ==
  [][\A t \in Tasks :
       remove_group_evict(t) /\ tasks[t].gid # NoGroup =>
         \A s \in tasks[t].members : subscriptions'[s].state = "stopped"]_vars

\* The position on the channel of group g of a message a subscriber got.
PositionOf(g, m) ==
  CHOOSE i \in 1..Len(groups[g].channel) : groups[g].channel[i] = m

IsLagMarker(m) == m.kind = "resync"

(* C18: what a subscriber has received is, in the channel's order (the     *)
(* order of the applies), a subsequence of the messages sent in its group; *)
(* between two messages it received one after the other nothing is         *)
(* missing but its own echoes, unless the lag marker stands between them.  *)
C18_SubscribersObserveApplyOrder ==
  \A s \in DOMAIN subscriptions :
    LET g == subscriptions[s].group
        r == subscriptions[s].received
    IN
    /\ \A i \in 1..Len(r) :
         ~IsLagMarker(r[i]) =>
           /\ \E k \in 1..Len(groups[g].channel) : groups[g].channel[k] = r[i]
           /\ r[i].origin # s
    /\ \A i, j \in 1..Len(r) :
         i < j /\ ~IsLagMarker(r[i]) /\ ~IsLagMarker(r[j]) =>
           PositionOf(g, r[i]) < PositionOf(g, r[j])
    /\ \A i \in 1..(Len(r) - 1) :
         ~IsLagMarker(r[i]) /\ ~IsLagMarker(r[i + 1]) =>
           \A k \in (PositionOf(g, r[i]) + 1)..(PositionOf(g, r[i + 1]) - 1) :
             groups[g].channel[k].origin = s

\* A slow subscriber took an update, fell more than the channel's capacity
\* behind, got the lag marker and then a later update: a gap-compressed
\* subsequence of the apply sequence.
C18_Witness ==
  \E s \in DOMAIN subscriptions :
    LET r == subscriptions[s].received IN
    /\ Len(r) >= 3
    /\ r[1].kind = "update"
    /\ IsLagMarker(r[2])
    /\ r[3].kind = "update"
    /\ PositionOf(subscriptions[s].group, r[3]) >
         PositionOf(subscriptions[s].group, r[1]) + 1

\* The request's matched route carries neither id (or no route matched).
NoIdInRoute ==
  ~mw.matched \/ (mw.workspace_param = Absent /\ mw.object_param = Absent)

(* C19: for a request whose matched route carries neither workspace_id nor *)
(* object_id, or that matched no route pattern, no permission check is     *)
(* made and the uid is not resolved at any point, and the request ends     *)
(* with the inner service's response.                                      *)
C19_NoIdBypassesAccessControl ==
  mw.pc # "none" /\ NoIdInRoute =>
    /\ mw.checks = <<>>
    /\ mw.uid = "unresolved"
    /\ mw.response \in {"none", "forwarded"}
    /\ mw.pc = "done" => mw.response = "forwarded" /\ mw.inner = "polled"

\* A request on a matched route without either id went through a
\* middleware that has both services registered and was forwarded.
C19_Witness ==
  /\ mw.pc = "done"
  /\ mw.matched
  /\ mw.workspace_param = Absent
  /\ mw.object_param = Absent
  /\ mw.services = AccessResources
  /\ mw.checks = <<>>
  /\ mw.uid = "unresolved"
  /\ mw.response = "forwarded"

(* C20: whatever the value of the route's workspace_id parameter, with a   *)
(* Workspace access-control service registered, a request whose matched    *)
(* route carries workspace_id is forwarded only after the workspace        *)
(* permission check was made and passed.                                   *)
C20_WorkspaceCheckedBeforeForward ==
  /\ mw.matched
  /\ mw.workspace_param # Absent
  /\ "Workspace" \in mw.services
  /\ mw.response = "forwarded"
  => Contains(mw.checks, Check("Workspace", mw.method, TRUE))

\* The resources checked so far, in the order of the checks.
CheckedResources == [i \in 1..Len(mw.checks) |-> mw.checks[i].resource]

C25_InnerCalledOnlyAfterChecks ==
  mw.matched /\ (mw.workspace_param # Absent \/ mw.object_param # Absent)
  => /\ mw.pc \in {"enter", "workspace", "collab"} => mw.inner = "not_called"
     /\ mw.response \in {"Forbidden", "Internal"} => mw.inner = "not_called"

\* The actions the level table of the access policy gives a level.
LevelActions(level) ==
  CASE level = "ReadOnly" -> {"Read"}
    [] level = "ReadAndComment" -> {"Read"}
    [] level = "ReadAndWrite" -> {"Read", "Write"}
    [] level = "FullAccess" -> {"Read", "Write", "Delete"}

\* The collab object of the policies.
TheCollab == to_object_id("Collab", CollabObjectId)

\* The policy load_policy makes of user u's stored collab level.
StoredCollabPolicy(u) ==
  <<ToString(u), TheCollab, to_action("level", policy.collab_member[u])>>

(* C22: the grouping rules load_policy emits are exactly the pairs of the  *)
(* level table, and once a load has returned Ok, for every loaded policy   *)
(* (uid, Collab(o), level) a check of an action succeeds exactly when the  *)
(* table gives the level that action; Read succeeds for every level.       *)
C22_GroupingExpandsLevelTable ==
  /\ {grouping_policies[i] : i \in 1..Len(grouping_policies)}
       = UNION {{<<to_action("level", l), to_action("action", a)>> :
                   a \in LevelActions(l)} : l \in Levels}
  /\ \A l \in Levels :
       {<<to_action("level", l), to_action("action", a)>> :
          a \in LevelActions(l)}
         = {level_grouping(l)[i] : i \in 1..Len(level_grouping(l))}
  /\ policy.loaded = "Ok" =>
       /\ policy.model.g
            = {grouping_policies[i] : i \in 1..Len(grouping_policies)}
       /\ \A u \in PolicyUsers, l \in Levels :
            <<ToString(u), TheCollab, to_action("level", l)>>
              \in policy.model.p
            => /\ \A a \in Actions :
                    check(u, TheCollab, a) <=> a \in LevelActions(l)
               /\ check(u, TheCollab, "Read")

\* A load has returned with user 1 at ReadAndComment, who may read and not
\* write, and user 2 at FullAccess, who may delete.
C22_Witness ==
  /\ policy.loaded = "Ok"
  /\ StoredCollabPolicy(1) \in policy.model.p
  /\ policy.collab_member[1] = "ReadAndComment"
  /\ check(1, TheCollab, "Read")
  /\ ~check(1, TheCollab, "Write")
  /\ StoredCollabPolicy(2) \in policy.model.p
  /\ policy.collab_member[2] = "FullAccess"
  /\ check(2, TheCollab, "Delete")

\* Every policy of the persisted memberships.
PersistedPolicies ==
  {workspace_policy(select_workspace_member_perm_stream[i]) :
     i \in 1..Len(select_workspace_member_perm_stream)}
  \cup {collab_policy(select_collab_member_access_level[i]) :
          i \in 1..Len(select_collab_member_access_level)}

(* C23: no step of the adapter changes the persisted memberships; each of  *)
(* save_policy, clear_policy, add_policy, add_policies, remove_policy,     *)
(* remove_policies and remove_filtered_policy leaves the memberships and   *)
(* the model as they are and returns Ok; load_filtered_policy opens the    *)
(* same unfiltered stream as load_policy, and a load of either kind that   *)
(* returns Ok with no membership edited meanwhile has loaded every         *)
(* persisted membership, whatever the filter.                              *)
C23_AdapterNeverWritesBack ==
  [][ /\ policy'.edits = policy.edits =>
           /\ policy'.workspace_member = policy.workspace_member
           /\ policy'.collab_member = policy.collab_member
      /\ policy.pc = "idle" /\ policy'.pc = "idle"
           /\ policy'.calls = policy.calls + 1 =>
           /\ policy'.op \in {"save_policy", "clear_policy", "add_policy",
                              "add_policies", "remove_policy",
                              "remove_policies", "remove_filtered_policy"}
           /\ policy'.result \in {"Ok", "Ok(true)"}
           /\ policy'.result = "Ok"
                <=> policy'.op \in {"save_policy", "clear_policy"}
           /\ policy'.model = policy.model
           /\ policy'.loaded = policy.loaded
      /\ policy.pc = "idle" /\ policy'.pc = "workspace_stream" =>
           /\ policy'.op \in {"load_policy", "load_filtered_policy"}
           /\ policy'.stream = select_workspace_member_perm_stream
      /\ policy'.loaded = "Ok" /\ ~policy'.stale =>
           policy'.model.p = PersistedPolicies'
    ]_vars

\* load_filtered_policy with a filter naming user 1 has returned Ok with
\* user 2's workspace and collab memberships loaded.
C23_Witness ==
  /\ policy.op = "load_filtered_policy"
  /\ policy.filter = ToString(1)
  /\ policy.loaded = "Ok"
  /\ ~policy.stale
  /\ policy.workspace_member[2] # NoRow
  /\ policy.collab_member[2] # NoRow
  /\ workspace_policy([uid |-> 2, workspace_id |-> WorkspaceId,
                       role |-> policy.workspace_member[2]])
       \in policy.model.p
  /\ StoredCollabPolicy(2) \in policy.model.p

(* C24: once a reload through the adapter has returned Ok with no          *)
(* membership edited since it began, the collab policies of the model are  *)
(* exactly those of the stored levels: a user whose stored level is        *)
(* ReadOnly is denied Write and allowed Read on the object, and no policy  *)
(* of the earlier load with another level is left in the model.            *)
C24_RevocationTakesEffectOnReload ==
  policy.loaded = "Ok" /\ ~policy.stale =>
    \A u \in PolicyUsers :
      /\ policy.collab_member[u] = "ReadOnly" =>
           /\ ~check(u, TheCollab, "Write")
           /\ check(u, TheCollab, "Read")
      /\ \A l \in Levels :
           <<ToString(u), TheCollab, to_action("level", l)>>
             \in policy.model.p
           => policy.collab_member[u] = l

\* User 1 was loaded at ReadAndWrite, the stored level was changed to
\* ReadOnly, and the reload has returned.
C24_Witness ==
  /\ policy.loaded = "Ok"
  /\ ~policy.stale
  /\ policy.edits = 1
  /\ <<ToString(1), TheCollab, to_action("level", "ReadAndWrite")>>
       \in policy.before.p
  /\ <<to_action("level", "ReadAndWrite"), to_action("action", "Write")>>
       \in policy.before.g
  /\ policy.collab_member[1] = "ReadOnly"
  /\ ~check(1, TheCollab, "Write")
  /\ check(1, TheCollab, "Read")

\* The policies of the workspace memberships.
WorkspacePolicies ==
  {workspace_policy(select_workspace_member_perm_stream[i]) :
     i \in 1..Len(select_workspace_member_perm_stream)}

(* C26: load_policy adds nothing while it reads the workspace stream, adds *)
(* the workspace policies as one batch when that stream has ended, adds    *)
(* nothing more while it reads the collab stream, and adds the collab      *)
(* policies and the grouping rules when that stream has ended. A failing   *)
(* workspace row returns an error with the model as load_policy received   *)
(* it; a failing collab row returns an error with the workspace policies   *)
(* in the model and no collab policy and no grouping rule.                 *)
C26_LoadPolicyBatchesAndErrors ==
  /\ policy.pc = "workspace_stream" => policy.model = EmptyModel
  /\ policy.loaded = "workspace stream failed" =>
       /\ policy.result = "Err" \/ policy.op # "load_policy"
       /\ policy.model = EmptyModel
  /\ policy.pc = "collab_stream" \/ policy.loaded = "collab stream failed" =>
       /\ policy.model.g = {}
       /\ \A pol \in policy.model.p : pol[2][1] = "Workspace"
       /\ ~policy.stale => policy.model.p = WorkspacePolicies
  /\ policy.loaded = "Ok" =>
       /\ policy.model.g # {}
       /\ ~policy.stale => policy.model.p = PersistedPolicies

\* The collab stream failed after both users' workspace policies had been
\* added; user 1 has a collab membership that is not in the model.
C26_Witness ==
  /\ policy.loaded = "collab stream failed"
  /\ policy.result = "Err"
  /\ ~policy.stale
  /\ Cardinality(policy.model.p) = 2
  /\ policy.model.p = WorkspacePolicies
  /\ policy.collab_member[1] # NoRow
  /\ policy.model.g = {}

(* C27: a tick() that cannot take the registry read lock returns with the *)
(* registry, the groups, the subscriptions and the storage as they were;  *)
(* a remove_group of tick's loop that cannot take the write lock leaves   *)
(* its candidate registered, unflushed and with its subscribers running,  *)
(* and tick goes on to the next candidate: the list of candidates loses   *)
(* exactly its head with each attempt, and tick returns only after the    *)
(* last one.                                                              *)
C27_ReaperToleratesBusyLocks ==
  [][ \A t \in Tasks :
        /\ tasks[t].pc = "idle" /\ tasks'[t] # tasks[t]
             /\ tasks'[t].op = "tick" /\ ~TryReadOk =>
             /\ tasks'[t].pc = "idle"
             /\ tasks'[t].removed = 0
             /\ tasks'[t].inactive_group_ids = <<>>
             /\ UNCHANGED <<group_by_object_id, regLock, groups,
                            subscriptions, storage, collab_cache>>
        /\ tasks[t].pc = "reap" /\ tasks'[t] # tasks[t] /\ ~TryWriteOk =>
             /\ UNCHANGED <<group_by_object_id, regLock, groups,
                            subscriptions, storage, collab_cache>>
             /\ tasks'[t].removed = tasks[t].removed
             /\ IF Len(tasks[t].inactive_group_ids) > 1
                THEN /\ tasks'[t].pc = "reap"
                     /\ tasks'[t].inactive_group_ids
                          = Tail(tasks[t].inactive_group_ids)
                ELSE tasks'[t].pc = "idle"
        /\ tasks[t].op = "tick" /\ tasks[t].pc \notin {"idle", "scan"}
             /\ tasks'[t].op = "tick" =>
             /\ tasks'[t].pc = "idle" =>
                  Len(tasks[t].inactive_group_ids) = 1
             /\ tasks'[t].pc # "idle" =>
                  \/ tasks'[t].inactive_group_ids
                       = tasks[t].inactive_group_ids
                  \/ /\ tasks'[t].inactive_group_ids
                          = Tail(tasks[t].inactive_group_ids)
                     /\ tasks'[t].pc = "reap"
    ]_vars

\* A tick whose first remove_group found the lock busy has removed its
\* next candidate's entry; the first candidate is still registered,
\* inactive and unflushed.
C27_Witness ==
  \E t \in Tasks :
    /\ tasks[t].op = "tick"
    /\ tasks[t].pc = "rg_flush"
    /\ tasks[t].log = "remove_lock_error"
    /\ tasks[t].removed = 1
    /\ \E o \in Registered :
         /\ o # tasks[t].object_id
         /\ is_inactive(group_by_object_id[o])
         /\ ~groups[group_by_object_id[o]].flushed
         /\ ~groups[group_by_object_id[o]].removed

(* C28: when create_group_if_need's initial load completes, the new       *)
(* group's state contains every update of every group of the same object  *)
(* whose registry entry was removed and whose flush has not yet reached   *)
(* storage: no load happens between the removal and the flush.            *)
C28_CreateLoadsEvictedState ==
  [][ \A t \in Tasks :
        tasks[t].pc = "init_initialize"
          /\ tasks'[t].pc = "init_cache_collab" =>
          \A h \in 1..Len(groups) :
            /\ groups[h].object_id = tasks[t].object_id
            /\ groups[h].removed
            /\ ~groups[h].flushed
            => groups[h].replica \subseteq groups'[tasks[t].gid].replica
    ]_vars

(* C29: whenever no operation of the cache is in progress, the storage   *)
(* layer's collab cache holds an entry for an object exactly when the     *)
(* registry holds a group for it, and the entry is that group's.          *)
C29_CollabCacheMatchesRegistry ==
  (\A t \in Tasks : tasks[t].pc = "idle") =>
    \A o \in Objects :
      /\ collab_cache[o] # NoGroup <=> group_by_object_id[o] # NoGroup
      /\ collab_cache[o] = group_by_object_id[o]

\* The tasks inside init_group, which hold the registry write lock.
Constructing == {t \in Tasks : tasks[t].pc \in {"init_initialize",
                                                "init_cache_collab",
                                                "init_observe"}}

(* C30: a create_group_if_need called while another task is constructing  *)
(* a group (and so holds the registry write lock) returns at once: it     *)
(* does not wait, builds and registers no group, leaves registry and lock *)
(* as they are, and gives its caller () and no error; if its object had   *)
(* no group, it still has none when the call has returned.                *)
C30_CreateUnderContentionReturnsUnit ==
  [][ \A t \in Tasks :
        /\ tasks[t].pc = "idle"
        /\ tasks'[t] # tasks[t]
        /\ tasks'[t].op = "create_group_if_need"
        /\ Constructing # {}
        => /\ regLock.writer \in Constructing
           /\ tasks'[t].pc = "idle"
           /\ tasks'[t].ret = "Unit"
           /\ tasks'[t].log = "create_lock_error"
           /\ UNCHANGED <<group_by_object_id, regLock, groups, collab_cache>>
    ]_vars

\* While one task is inside init_group for one object, another task's
\* create_group_if_need for a different object has returned () with no
\* group registered for its object.
C30_Witness ==
  \E t \in Tasks, c \in Constructing :
    /\ tasks[t].op = "create_group_if_need"
    /\ tasks[t].pc = "idle"
    /\ tasks[t].ret = "Unit"
    /\ tasks[t].log = "create_lock_error"
    /\ tasks[t].object_id # tasks[c].object_id
    /\ group_by_object_id[tasks[t].object_id] = NoGroup

\* The lookups of the cache.
Lookups == {"contains_user", "contains_group", "get_group",
            "number_of_groups"}

(* C31: a call of contains_group, contains_user, get_group or             *)
(* number_of_groups returns in the step it is called, leaving the         *)
(* registry, its lock, every group (its subscriber mapping included) and  *)
(* every subscription unchanged.  While a writer holds the registry lock  *)
(* contains_group and contains_user return Err and get_group and          *)
(* number_of_groups return None, whatever is registered; contains_user    *)
(* also returns Err while the found group's subscribers lock is held.     *)
(* Otherwise each returns the answer of the registry.                     *)
C31_LookupsReadOnlyNeverWait ==
  [][ \A t \in Tasks :
        tasks[t].pc = "idle" /\ tasks'[t] # tasks[t]
          /\ tasks'[t].op \in Lookups =>
        LET op == tasks'[t].op
            o == tasks'[t].object_id
            u == tasks'[t].user
            g == group_by_object_id[o]
            ret == tasks'[t].ret
        IN
        /\ tasks'[t].pc = "idle"
        /\ UNCHANGED <<group_by_object_id, regLock, groups, subscriptions,
                       storage, collab_cache>>
        /\ regLock.writer # NoTask =>
             /\ op \in {"contains_user", "contains_group"} => ret = "Err"
             /\ op \in {"get_group", "number_of_groups"} => ret = "None"
        /\ regLock.writer = NoTask =>
             /\ op = "contains_group" => ret = OkBool(g # NoGroup)
             /\ op = "get_group" =>
                  /\ tasks'[t].gid = g
                  /\ ret = "None" <=> g = NoGroup
             /\ op = "number_of_groups" =>
                  ret = SomeOf(Cardinality(Registered))
             /\ op = "contains_user" =>
                  IF g = NoGroup THEN ret = "Ok(false)"
                  ELSE IF groups[g].subsLock # NoTask THEN ret = "Err"
                  ELSE ret = OkBool(groups[g].subscribers[u]
                                      # NoSubscription)
    ]_vars

\* get_group has returned None for an object whose group is registered,
\* while another task holds the registry write lock.
C31_Witness ==
  \E t \in Tasks :
    /\ tasks[t].op = "get_group"
    /\ tasks[t].pc = "idle"
    /\ tasks[t].ret = "None"
    /\ group_by_object_id[tasks[t].object_id] # NoGroup
    /\ regLock.writer \notin {NoTask, t}

\* Task t takes the step of remove_group that tries the registry lock: as
\* a caller's call, or as the next call of tick's loop.
RemoveGroupTries(t) ==
  /\ tasks'[t] # tasks[t]
  /\ \/ tasks[t].pc = "idle" /\ tasks'[t].op = "remove_group"
     \/ tasks[t].pc = "reap"

(* C32: a remove_group(object_id) that gets the write lock and finds no   *)
(* group leaves the registry, every group, every subscription and the     *)
(* storage unchanged, goes straight to remove_collab_cache without a      *)
(* flush or a stop, and that call clears the cache entry of object_id; a  *)
(* remove_group that does not get the write lock changes nothing and      *)
(* returns without the call of the storage layer.                         *)
C32_RemoveAbsentGroupOnlyEvicts ==
  [][ \A t \in Tasks :
        /\ RemoveGroupTries(t) /\ ~TryWriteOk =>
             /\ UNCHANGED <<group_by_object_id, regLock, groups,
                            subscriptions, storage, collab_cache>>
             /\ tasks'[t].pc \in {"idle", "reap"}
             /\ tasks'[t].log = "remove_lock_error"
             /\ ~Contains(tasks'[t].events, "evict")
        /\ RemoveGroupTries(t) /\ TryWriteOk
             /\ group_by_object_id[tasks'[t].object_id] = NoGroup =>
             /\ UNCHANGED <<group_by_object_id, regLock, groups,
                            subscriptions, storage, collab_cache>>
             /\ tasks'[t].pc = "rg_evict"
             /\ tasks'[t].gid = NoGroup
             /\ tasks'[t].log = "group_not_found"
        /\ tasks[t].pc = "rg_evict" /\ tasks[t].gid = NoGroup
             /\ tasks'[t] # tasks[t] =>
             /\ UNCHANGED <<group_by_object_id, regLock, groups,
                            subscriptions, storage>>
             /\ collab_cache'[tasks[t].object_id] = NoGroup
             /\ \A o \in Objects \ {tasks[t].object_id} :
                  collab_cache'[o] = collab_cache[o]
             /\ tasks'[t].events = <<"remove", "unlock", "evict">>
    ]_vars

\* A caller's remove_group of an object without a group has returned after
\* its cache eviction, with another object's group registered and
\* unflushed.
C32_Witness ==
  \E t \in Tasks :
    /\ tasks[t].op = "remove_group"
    /\ tasks[t].pc = "idle"
    /\ tasks[t].log = "group_not_found"
    /\ tasks[t].events = <<"remove", "unlock", "evict">>
    /\ tasks[t].removed = 0
    /\ collab_cache[tasks[t].object_id] = NoGroup
    /\ \E o \in Registered :
         /\ o # tasks[t].object_id
         /\ ~groups[group_by_object_id[o]].flushed

(* C33: the middleware makes a check only for a resource whose service is *)
(* registered and whose id the route carries.  A request is rejected with *)
(* Forbidden only by a registered service's denial, so a request that     *)
(* resolved its uid and whose present ids have no registered service is   *)
(* forwarded without a check; with no service registered every finished   *)
(* request that resolved a uid was forwarded.                             *)
C33_ChecksOnlyRegisteredServices ==
  /\ \A i \in 1..Len(mw.checks) :
       /\ mw.checks[i].resource \in mw.services
       /\ mw.checks[i].resource = "Workspace" => mw.workspace_id = "Some"
       /\ mw.checks[i].resource = "Collab" => mw.collab_object_id = "Some"
  /\ mw.pc = "done" /\ mw.uid = "resolved" =>
       /\ "Workspace" \notin mw.services =>
            /\ ~Contains(CheckedResources, "Workspace")
            /\ mw.response = "Forbidden" =>
                 mw.checks[Len(mw.checks)].resource = "Collab"
       /\ "Collab" \notin mw.services =>
            /\ ~Contains(CheckedResources, "Collab")
            /\ mw.response = "Forbidden" =>
                 mw.checks[Len(mw.checks)].resource = "Workspace"
       /\ mw.services = {} =>
            /\ mw.checks = <<>>
            /\ mw.response = "forwarded"
            /\ mw.inner = "polled"

\* A DELETE carrying a workspace_id and an object_id was forwarded without
\* a check, no service being registered.
C33_Witness ==
  /\ mw.pc = "done"
  /\ mw.matched
  /\ mw.method = "DELETE"
  /\ mw.services = {}
  /\ mw.workspace_id = "Some"
  /\ mw.collab_object_id = "Some"
  /\ mw.uid = "resolved"
  /\ mw.checks = <<>>
  /\ mw.response = "forwarded"

=============================================================================
